---------------------------- MODULE Spec2Model ----------------------------
(***************************************************************************)
(* Model of the scaffolding extension: the placeholder rewriter            *)
(* (String.prototype.replaceName, replacePlaceholdersInPath/InContent),    *)
(* the template walk (getAllTemplateFiles) and the commands that           *)
(* materialize templates (createInitials, createUsecase).                  *)
(*                                                                         *)
(* A JavaScript string is modelled as a sequence of lexemes.  A lexeme is  *)
(* either a word in one of its three case forms ("login", "Login",         *)
(* "LOGIN") or a single non-alphanumeric mark ("{{" and "}}" are the brace *)
(* pairs of the token grammar).  The string is the concatenation of its    *)
(* lexemes: "{{package_name.snakeCase}}" is                                *)
(*   << "{{", "package", "_", "name", ".", "snake", "Case", "}}" >>.       *)
(* Every pattern the code searches for is a sequence of whole lexemes, so  *)
(* substring search on the string is substring search on the sequence.     *)
(***************************************************************************)
EXTENDS Integers, Sequences, FiniteSets, TLC

VARIABLES
    version,       \* which revision of the command's source file is running
    rootFolder,    \* utils.getRootFolder(uri): the workspace folder as the host gives it
    clickedFolder, \* uri.fsPath of the folder the command was invoked on
    usecaseName,   \* what the user typed into the use-case input box
    pubDev,        \* pub.dev: the packages whose version lookup fails
    fs,            \* the files and directories on disk: path |-> node
    msgs,          \* the messages shown through window.show*Message, in order
    written,       \* the completed fs.writeFile calls, in order, each as
                   \* << path, contents, template file the command made it from >>
    text,          \* rewriter: the string handed to the rewriting call
    placeholders,  \* rewriter: the placeholders object, << <<key, value>>, ... >> in insertion order
    result,        \* the value the last call returned
    loc,           \* the local variables of the running function
    pc             \* position of the running command

vars == << version, rootFolder, clickedFolder, usecaseName, pubDev, fs, msgs, written,
           text, placeholders, result, loc, pc >>

inputVars == << version, rootFolder, clickedFolder, usecaseName, pubDev >>
diskVars == << fs, msgs, written >>

(***************************************************************************)
(* Lexemes                                                                 *)
(***************************************************************************)

\* The words, each as << lower, Capitalised, UPPER >>.
WordForms ==
    { << "login", "Login", "LOGIN" >>,       << "user", "User", "USER" >>,
      << "package", "Package", "PACKAGE" >>, << "name", "Name", "NAME" >>,
      << "custom", "Custom", "CUSTOM" >>,    << "folder", "Folder", "FOLDER" >>,
      << "root", "Root", "ROOT" >>,          << "feature", "Feature", "FEATURE" >>,
      << "usecase", "Usecase", "USECASE" >>, << "repository", "Repository", "REPOSITORY" >>,
      << "lower", "Lower", "LOWER" >>,       << "upper", "Upper", "UPPER" >>,
      << "snake", "Snake", "SNAKE" >>,       << "pascal", "Pascal", "PASCAL" >>,
      << "camel", "Camel", "CAMEL" >>,       << "case", "Case", "CASE" >>,
      << "template", "Template", "TEMPLATE" >>, << "dart", "Dart", "DART" >>,
      << "gymtor", "Gymtor", "GYMTOR" >>,    << "my", "My", "MY" >>,
      << "app", "App", "APP" >>,             << "auth", "Auth", "AUTH" >>,
      << "lib", "Lib", "LIB" >>,             << "src", "Src", "SRC" >>,
      << "test", "Test", "TEST" >>,          << "domain", "Domain", "DOMAIN" >>,
      << "usecases", "Usecases", "USECASES" >>, << "params", "Params", "PARAMS" >>,
      << "config", "Config", "CONFIG" >>,    << "core", "Core", "CORE" >>,
      << "fixtures", "Fixtures", "FIXTURES" >>, << "api", "Api", "API" >>,
      << "templates", "Templates", "TEMPLATES" >>, << "flutter", "Flutter", "FLUTTER" >>,
      << "tdd", "Tdd", "TDD" >>,             << "clean", "Clean", "CLEAN" >>,
      << "foo", "Foo", "FOO" >>,             << "bar", "Bar", "BAR" >>,
      << "work", "Work", "WORK" >>,          << "import", "Import", "IMPORT" >> }

LowerWords == { f[1] : f \in WordForms }
CapWords   == { f[2] : f \in WordForms }
UpperWords == { f[3] : f \in WordForms }
Words      == LowerWords \cup CapWords \cup UpperWords

FormsOf(x) == CHOOSE f \in WordForms : x \in { f[1], f[2], f[3] }

\* toLowerCase / toUpperCase of one lexeme; a mark has no case.
LowerOf == [ x \in Words |-> FormsOf(x)[1] ]
CapOf   == [ x \in Words |-> FormsOf(x)[2] ]
UpperOf == [ x \in Words |-> FormsOf(x)[3] ]

IsWord(x) == x \in Words


(***************************************************************************)
(* JavaScript string primitives on lexeme sequences                        *)
(***************************************************************************)

\* s has pat at position i (1-based).
MatchesAt(s, pat, i) ==
    /\ i >= 1
    /\ i + Len(pat) - 1 <= Len(s)
    /\ SubSeq(s, i, i + Len(pat) - 1) = pat

\* String.prototype.includes
includes(s, pat) == \E i \in 1..(Len(s) + 1) : MatchesAt(s, pat, i)

\* String.prototype.indexOf as a 1-based position, 0 when absent.
indexOf(s, pat) ==
    IF includes(s, pat)
    THEN CHOOSE i \in 1..(Len(s) + 1) :
            /\ MatchesAt(s, pat, i)
            /\ \A j \in 1..(i - 1) : ~MatchesAt(s, pat, j)
    ELSE 0

\* String.prototype.endsWith
endsWith(s, pat) == MatchesAt(s, pat, Len(s) - Len(pat) + 1)

\* The grave accent and the apostrophe, as lexemes.
Backtick   == "backtick"
Apostrophe == "'"

\* ECMAScript GetSubstitution for a string pattern (no capture groups): in the
\* replacement text "$$" stands for "$", "$&" for the matched text, "$" with
\* a grave accent for the text before the match and "$'" for the text after
\* it; any other "$" is literal.
RECURSIVE GetSubstitutionFrom(_, _, _, _, _)
GetSubstitutionFrom(matched, str, position, replacement, j) ==
    IF j > Len(replacement) THEN << >>
    ELSE IF replacement[j] = "$" /\ j < Len(replacement)
              /\ replacement[j + 1] \in { "$", "&", Backtick, Apostrophe }
         THEN ( CASE replacement[j + 1] = "$" -> << "$" >>
                  [] replacement[j + 1] = "&" -> matched
                  [] replacement[j + 1] = Backtick -> SubSeq(str, 1, position - 1)
                  [] replacement[j + 1] = Apostrophe ->
                        SubSeq(str, position + Len(matched), Len(str)) )
              \o GetSubstitutionFrom(matched, str, position, replacement, j + 2)
         ELSE << replacement[j] >>
              \o GetSubstitutionFrom(matched, str, position, replacement, j + 1)

GetSubstitution(matched, str, position, replacement) ==
    GetSubstitutionFrom(matched, str, position, replacement, 1)

\* String.prototype.replaceAll(searchValue: string, replaceValue: string):
\* every non-overlapping occurrence, left to right, in the original string.
RECURSIVE ReplaceAllFrom(_, _, _, _)
ReplaceAllFrom(str, searchValue, replaceValue, i) ==
    IF i > Len(str) THEN << >>
    ELSE IF MatchesAt(str, searchValue, i)
         THEN GetSubstitution(searchValue, str, i, replaceValue)
              \o ReplaceAllFrom(str, searchValue, replaceValue, i + Len(searchValue))
         ELSE << str[i] >> \o ReplaceAllFrom(str, searchValue, replaceValue, i + 1)

replaceAll(str, searchValue, replaceValue) ==
    IF searchValue = << >> \/ ~includes(str, searchValue) THEN str
    ELSE ReplaceAllFrom(str, searchValue, replaceValue, 1)

\* String.prototype.replace(searchValue: string, replaceValue: string): the
\* first occurrence only.
replace(str, searchValue, replaceValue) ==
    LET i == indexOf(str, searchValue) IN
    IF i = 0 THEN str
    ELSE SubSeq(str, 1, i - 1)
         \o GetSubstitution(searchValue, str, i, replaceValue)
         \o SubSeq(str, i + Len(searchValue), Len(str))

\* String.prototype.toLowerCase / toUpperCase
toLowerCase(s) == [ i \in 1..Len(s) |-> IF IsWord(s[i]) THEN LowerOf[s[i]] ELSE s[i] ]
toUpperCase(s) == [ i \in 1..Len(s) |-> IF IsWord(s[i]) THEN UpperOf[s[i]] ELSE s[i] ]

(***************************************************************************)
(* change-case: noCase splits the input into words, the three exported     *)
(* functions join the transformed words.                                   *)
(***************************************************************************)

\* change-case's split between two adjacent word lexemes x y:
\* /([a-z0-9])([A-Z])/ splits after a lexeme ending in a lower-case letter
\* before one starting with an upper-case letter; /([A-Z])([A-Z][a-z])/
\* splits after an all-upper lexeme before a Capitalised one.  (An all-upper
\* lexeme directly followed by a lower-case one would be split inside the
\* first lexeme; the values of the model never hold that.)
SplitBetween(x, y) ==
    \/ x \in (LowerWords \cup CapWords) /\ y \in (CapWords \cup UpperWords)
    \/ x \in UpperWords /\ y \in CapWords

\* The words of s: maximal runs of word lexemes with no split inside; every
\* run of marks (/[^A-Z0-9]+/gi) is a delimiter.
RECURSIVE SplitWordsFrom(_, _, _, _)
SplitWordsFrom(s, i, cur, acc) ==
    IF i > Len(s)
    THEN IF cur = << >> THEN acc ELSE Append(acc, cur)
    ELSE IF ~IsWord(s[i])
         THEN SplitWordsFrom(s, i + 1, << >>, IF cur = << >> THEN acc ELSE Append(acc, cur))
         ELSE IF cur # << >> /\ SplitBetween(cur[Len(cur)], s[i])
              THEN SplitWordsFrom(s, i + 1, << s[i] >>, Append(acc, cur))
              ELSE SplitWordsFrom(s, i + 1, Append(cur, s[i]), acc)

noCase(s) == SplitWordsFrom(s, 1, << >>, << >>)

\* A word with its first letter upper-cased and the rest lower-cased.
pascalCaseTransform(word) ==
    [ i \in 1..Len(word) |-> IF i = 1 THEN CapOf[word[1]] ELSE LowerOf[word[i]] ]

RECURSIVE Join(_, _)
Join(words, delimiter) ==
    IF words = << >> THEN << >>
    ELSE IF Len(words) = 1 THEN words[1]
    ELSE words[1] \o delimiter \o Join(Tail(words), delimiter)

snakeCase(s) ==
    LET w == noCase(s) IN Join([ i \in 1..Len(w) |-> toLowerCase(w[i]) ], << "_" >>)

pascalCase(s) ==
    LET w == noCase(s) IN Join([ i \in 1..Len(w) |-> pascalCaseTransform(w[i]) ], << >>)

camelCase(s) ==
    LET w == noCase(s) IN
    Join([ i \in 1..Len(w) |-> IF i = 1 THEN toLowerCase(w[1])
                                ELSE pascalCaseTransform(w[i]) ], << >>)

(***************************************************************************)
(* The rewriter                                                            *)
(***************************************************************************)

lowerCaseLabel  == << "lower", "Case" >>
upperCaseLabel  == << "upper", "Case" >>
snakeCaseLabel  == << "snake", "Case" >>
pascalCaseLabel == << "pascal", "Case" >>
camelCaseLabel  == << "camel", "Case" >>

\* String.prototype.replaceName(searchTerm, replaceFor)
replaceName(targetText, searchTerm, replaceFor) ==
    LET t1 == IF includes(searchTerm, lowerCaseLabel)
              THEN replaceAll(targetText, searchTerm, toLowerCase(replaceFor))
              ELSE targetText
        t2 == IF includes(searchTerm, upperCaseLabel)
              THEN replaceAll(t1, searchTerm, toUpperCase(replaceFor))
              ELSE t1
        t3 == IF includes(searchTerm, snakeCaseLabel)
              THEN replaceAll(t2, searchTerm, snakeCase(replaceFor))
              ELSE t2
        t4 == IF includes(searchTerm, pascalCaseLabel)
              THEN replaceAll(t3, searchTerm, pascalCase(replaceFor))
              ELSE t3
        t5 == IF includes(searchTerm, camelCaseLabel)
              THEN replaceAll(t4, searchTerm, camelCase(replaceFor))
              ELSE t4
    IN  replaceAll(t5, searchTerm, replaceFor)

\* The template literals `{{${key}}}` and `{{${key}.<label>}}`.
Token(key) == << "{{" >> \o key \o << "}}" >>
StyledToken(key, label) == << "{{" >> \o key \o << "." >> \o label \o << "}}" >>

\* The five style labels, in the order the code names them.
StyleLabels ==
    << lowerCaseLabel, upperCaseLabel, snakeCaseLabel, pascalCaseLabel, camelCaseLabel >>

\* The token of a key in style st: 0 is the bare token, 1..5 index StyleLabels.
TokenOf(key, st) == IF st = 0 THEN Token(key) ELSE StyledToken(key, StyleLabels[st])

\* A chain res.replaceName(c1).replaceName(c2)..., from call n on; a call is
\* << searchTerm, replaceFor >>.  (Each intermediate string is bound as a
\* value before the next call is made.)
RECURSIVE replaceNameChain(_, _, _)
replaceNameChain(res, calls, n) ==
    IF n > Len(calls) THEN res
    ELSE CHOOSE out \in { replaceNameChain(r, calls, n + 1) :
                            r \in { replaceName(res, calls[n][1], calls[n][2]) } } : TRUE

\* Object.keys(placeholders).forEach(...): for each key, in insertion order,
\* the six calls result.replaceName(`{{${key}}}`, value), ...lowerCase,
\* ...upperCase, ...snakeCase, ...pascalCase, ...camelCase.
PlaceholderCalls(ph) ==
    [ n \in 1..(6 * Len(ph)) |->
        << TokenOf(ph[((n - 1) \div 6) + 1][1], (n - 1) % 6), ph[((n - 1) \div 6) + 1][2] >> ]

replacePlaceholdersInPath(path, ph) == replaceNameChain(path, PlaceholderCalls(ph), 1)

replacePlaceholdersInContent(content, ph) ==
    replaceNameChain(content, PlaceholderCalls(ph), 1)


(***************************************************************************)
(* The names of the placeholders the commands bind                         *)
(***************************************************************************)

custom_folder   == << "custom", "_", "folder" >>
package_name    == << "package", "_", "name" >>
root_folder     == << "root", "_", "folder" >>
feature_name    == << "feature", "_", "name" >>
usecase_name    == << "usecase", "_", "name" >>
\* A placeholder of the repository templates, bound by neither command here.
repository_name == << "repository", "_", "name" >>

(***************************************************************************)
(* Specification SpecRewrite: the rewriter as a pure function.  Init draws *)
(* a text and a placeholders object; each action is one call.              *)
(***************************************************************************)

\* The longest text drawn, in segments (a segment is a token or a plain lexeme).
MaxSegs == 2

\* A variable name that holds a style label: "snakeCase_name".
snakeCase_name == << "snake", "Case", "_", "name" >>

\* Sequences that are no token: an unterminated one, and two that hold a
\* token between further braces.
Unterminated == << "{{", "name" >>
NestedBraces == << "{{" >> \o Token(package_name) \o << "}}" >>
NestedName == << "{{", "foo" >> \o Token(package_name) \o << "}}" >>
Malformed == { Unterminated, NestedBraces, NestedName }

Segments ==
    { << "foo" >>, Token(custom_folder), Token(package_name),
      StyledToken(package_name, lowerCaseLabel), StyledToken(package_name, upperCaseLabel),
      StyledToken(package_name, snakeCaseLabel), StyledToken(package_name, pascalCaseLabel),
      StyledToken(package_name, camelCaseLabel), StyledToken(repository_name, snakeCaseLabel),
      Token(snakeCase_name), StyledToken(custom_folder, lowerCaseLabel) }
        \cup Malformed

RECURSIVE TextsOf(_)
TextsOf(n) ==
    IF n = 0 THEN { << >> }
    ELSE TextsOf(n - 1) \cup { t \o g : t \in TextsOf(n - 1), g \in Segments }

Texts == TextsOf(MaxSegs)

\* Raw values: LoginUser, login_user, "$&", "$$", and the token text of
\* another binding.
PlainValues == { << "Login", "User" >>, << "login", "_", "user" >> }
Values == PlainValues \cup { << "$", "&" >>, << "$", "$" >>, Token(package_name) }

\* The placeholders object createInitials builds.
InitialsPlaceholders(clicked, package, root) ==
    << << custom_folder, clicked >>, << package_name, package >>, << root_folder, root >> >>

RewritePlaceholders ==
    { InitialsPlaceholders(c, p, << "/", "work", "/", "app" >>) :
        c \in { << "my", "_", "app" >>, << "$", "&" >>, Token(package_name) },
        p \in { << "Login", "User" >>, << "$", "$" >>, Token(custom_folder) } }

Idle ==
    /\ version = "none"
    /\ rootFolder = << >>
    /\ clickedFolder = << >>
    /\ usecaseName = << >>
    /\ pubDev = { }
    /\ fs = << >>
    /\ msgs = << >>
    /\ written = << >>

InitRewrite ==
    /\ Idle
    /\ text \in Texts
    /\ placeholders = << >>
    /\ result = << >>
    /\ loc = << >>
    /\ pc = "start"

\* content.replaceName(searchTerm, replaceFor), for the token of a key in
\* any style and any raw value.
CallReplaceName ==
    /\ pc = "start"
    /\ \E key \in { package_name, snakeCase_name }, st \in 0..5, replaceFor \in Values :
          /\ loc' = [ key |-> key, style |-> st,
                      searchTerm |-> TokenOf(key, st), replaceFor |-> replaceFor ]
          /\ result' = replaceName(text, TokenOf(key, st), replaceFor)
    /\ pc' = "replaceName"
    /\ UNCHANGED << inputVars, diskVars, text, placeholders >>

CallReplacePlaceholdersInPath ==
    /\ pc = "start"
    /\ \E ph \in RewritePlaceholders :
          /\ placeholders' = ph
          /\ result' = replacePlaceholdersInPath(text, ph)
    /\ pc' = "path"
    /\ UNCHANGED << inputVars, diskVars, text, loc >>

CallReplacePlaceholdersInContent ==
    /\ pc = "start"
    /\ \E ph \in RewritePlaceholders :
          /\ placeholders' = ph
          /\ result' = replacePlaceholdersInContent(text, ph)
    /\ pc' = "content"
    /\ UNCHANGED << inputVars, diskVars, text, loc >>

NextRewrite ==
    \/ CallReplaceName
    \/ CallReplacePlaceholdersInPath
    \/ CallReplacePlaceholdersInContent

SpecRewrite == InitRewrite /\ [][NextRewrite]_vars

(***************************************************************************)
(* Reference notions the rewriter is compared with.                        *)
(***************************************************************************)

\* The value rendered in style st (0 is identity, 1..5 index StyleLabels).
Render(value, st) ==
    CASE st = 0 -> value
      [] st = 1 -> toLowerCase(value)
      [] st = 2 -> toUpperCase(value)
      [] st = 3 -> snakeCase(value)
      [] st = 4 -> pascalCase(value)
      [] st = 5 -> camelCase(value)

\* Every occurrence of pat in s replaced by rep taken literally, left to right.
RECURSIVE LiteralReplaceFrom(_, _, _, _)
LiteralReplaceFrom(s, pat, rep, i) ==
    IF i > Len(s) THEN << >>
    ELSE IF MatchesAt(s, pat, i) THEN rep \o LiteralReplaceFrom(s, pat, rep, i + Len(pat))
    ELSE << s[i] >> \o LiteralReplaceFrom(s, pat, rep, i + 1)

LiteralReplaceAll(s, pat, rep) == LiteralReplaceFrom(s, pat, rep, 1)

\* The << binding, style >> pairs whose token starts at position i of s.
TokensAt(s, ph, i) ==
    { m \in (1..Len(ph)) \X (0..5) : MatchesAt(s, TokenOf(ph[m[1]][1], m[2]), i) }

\* One left-to-right scan of s that replaces every token of ph once by the
\* rendered value and never looks at what it has emitted.
RECURSIVE SinglePassFrom(_, _, _)
SinglePassFrom(s, ph, i) ==
    IF i > Len(s) THEN << >>
    ELSE IF TokensAt(s, ph, i) = { } THEN << s[i] >> \o SinglePassFrom(s, ph, i + 1)
    ELSE LET m == CHOOSE x \in TokensAt(s, ph, i) : TRUE
         IN  Render(ph[m[1]][2], m[2])
               \o SinglePassFrom(s, ph, i + Len(TokenOf(ph[m[1]][1], m[2])))

SinglePass(s, ph) == SinglePassFrom(s, ph, 1)

\* s holds a token, bare or styled, of some binding of ph.
ContainsToken(s, ph) ==
    \E i \in 1..Len(ph), st \in 0..5 : includes(s, TokenOf(ph[i][1], st))

\* No value of ph holds "{{".
NoOpeningBraces(ph) == \A i \in 1..Len(ph) : ~includes(ph[i][2], << "{{" >>)

(***************************************************************************)
(* Properties of the rewriter (SpecRewrite).                               *)
(***************************************************************************)

\* C1: exhaustive token coverage.  After one pass of replacePlaceholdersInPath
\* or replacePlaceholdersInContent with values that hold no "{{", the output
\* holds no token of any binding, and it is the input with each token
\* occurrence replaced once by its rendered value.
C1_ExhaustiveTokenCoverage ==
    (pc \in { "path", "content" } /\ NoOpeningBraces(placeholders))
        => /\ ~ContainsToken(result, placeholders)
           /\ result = SinglePass(text, placeholders)

\* C2: replacement text is inserted verbatim and not re-scanned.  When the
\* text is the bare token of one binding, the output of one pass is that
\* binding's value exactly as supplied, also when the value holds the token
\* of another binding, "$&" or "$$".
C2_VerbatimInsertion ==
    pc = "content"
        => \A i \in 1..Len(placeholders) :
              text = Token(placeholders[i][1]) => result = placeholders[i][2]

\* C3: one replaceName call replaces every occurrence of the token it is
\* given by the value rendered in exactly the style of that token (the bare
\* token by the value unchanged), for every variable name, also one that
\* holds a style label.  Stated for values without "$" and "{{".
C3_ExactStyle ==
    (pc = "replaceName" /\ loc.replaceFor \in PlainValues)
        => result = LiteralReplaceAll(text, loc.searchTerm, Render(loc.replaceFor, loc.style))

(***************************************************************************)
(* The file system.  fs maps the path of every existing entry to its       *)
(* node; a path is a string whose directories are separated by "/".        *)
(***************************************************************************)

\* fs without any entry.
EmptyFs == [ p \in { } |-> [ dir |-> TRUE, items |-> << >>, content |-> << >> ] ]

DirNode == [ dir |-> TRUE, items |-> << >>, content |-> << >> ]
FileNode(contents) == [ dir |-> FALSE, items |-> << >>, content |-> contents ]

\* The positions of "/" in a path.
SlashesOf(path) == { i \in 1..Len(path) : path[i] = "/" }

\* path.dirname: the path up to its last "/".
dirname(path) ==
    IF SlashesOf(path) = { } THEN << "." >>
    ELSE LET last == CHOOSE i \in SlashesOf(path) : \A j \in SlashesOf(path) : j <= i
         IN  SubSeq(path, 1, last - 1)

\* The last component of a path.
basename(path) ==
    IF SlashesOf(path) = { } THEN path
    ELSE LET last == CHOOSE i \in SlashesOf(path) : \A j \in SlashesOf(path) : j <= i
         IN  SubSeq(path, last + 1, Len(path))

\* The entry a path string names: repeated "/" count as one.
RECURSIVE ResolveFrom(_, _)
ResolveFrom(path, i) ==
    IF i > Len(path) THEN << >>
    ELSE IF path[i] = "/" /\ i < Len(path) /\ path[i + 1] = "/" THEN ResolveFrom(path, i + 1)
    ELSE << path[i] >> \o ResolveFrom(path, i + 1)

Resolve(path) == ResolveFrom(path, 1)

\* fs.existsSync, fs.statSync(...).isDirectory(), fs.readdirSync, readFileSync.
existsSync(path) == Resolve(path) \in DOMAIN fs
isDirectory(path) == fs[Resolve(path)].dir
readdirSync(path) == fs[Resolve(path)].items
readFileSync(path) == fs[Resolve(path)].content

\* The file system f with one more entry at path p (p not in f); the entry
\* is enumerated last in its parent directory.
AddNode(f, p, node) ==
    [ q \in DOMAIN f \cup { p } |->
        IF q = p THEN node
        ELSE IF q = dirname(p) /\ f[q].dir THEN [ f[q] EXCEPT !.items = Append(@, basename(p)) ]
        ELSE f[q] ]

\* The directories a recursive mkdir of dir has to find or make, outermost first.
Ancestors(dir) ==
    LET cuts == { i \in SlashesOf(dir) : i > 1 } \cup { Len(dir) + 1 }
        Nth[k \in 1..Cardinality(cuts)] ==
            CHOOSE i \in cuts : Cardinality({ j \in cuts : j < i }) = k - 1
    IN  [ k \in 1..Cardinality(cuts) |-> SubSeq(dir, 1, Nth[k] - 1) ]

\* fs.mkdir(dir, { recursive: true }) fails when a component is a file.
MkdirBlocked(f, dir) ==
    \E k \in 1..Len(Ancestors(Resolve(dir))) :
        LET a == Ancestors(Resolve(dir))[k] IN a \in DOMAIN f /\ ~f[a].dir

RECURSIVE MkdirFrom(_, _, _)
MkdirFrom(f, anc, k) ==
    IF k > Len(anc) THEN f
    ELSE IF anc[k] \in DOMAIN f THEN MkdirFrom(f, anc, k + 1)
    ELSE CHOOSE out \in { MkdirFrom(g, anc, k + 1) : g \in { AddNode(f, anc[k], DirNode) } } : TRUE

\* The file system after fs.mkdir(dir, { recursive: true }) succeeded.
mkdir(f, dir) == MkdirFrom(f, Ancestors(Resolve(dir)), 1)

\* fs.writeFile(path, contents) fails when path is a directory or its
\* parent is missing.
WriteBlocked(f, path) ==
    \/ Resolve(path) \in DOMAIN f /\ f[Resolve(path)].dir
    \/ Resolve(dirname(path)) \notin DOMAIN f

\* A writeFile that leaves an existing file as it is.
WriteFileKeepsExisting(f, path, contents) ==
    IF Resolve(path) \in DOMAIN f THEN f
    ELSE AddNode(f, Resolve(path), FileNode(contents))

\* The file system after fs.writeFile(path, contents) succeeded.
writeFile(f, path, contents) ==
    IF Resolve(path) \in DOMAIN f
    THEN [ f EXCEPT ![Resolve(path)] = FileNode(contents) ]
    ELSE AddNode(f, Resolve(path), FileNode(contents))

\* The reserved suffix of template files.
dotTemplate == << ".", "template" >>
dotDart == << ".", "dart" >>

\* getAllTemplateFiles(dir); WalkItems is its loop over items, from item k on.
RECURSIVE getAllTemplateFiles(_)
RECURSIVE WalkItems(_, _, _)

\* A walk that reports a missing root as an entry.
WalkMissingAsEntry(dir) ==
    IF ~existsSync(dir) THEN << dir >>
    ELSE WalkItems(dir, readdirSync(dir), 1)

getAllTemplateFiles(dir) ==
    IF ~existsSync(dir) THEN << >>
    ELSE WalkItems(dir, readdirSync(dir), 1)

\* A loop that tests the suffix before the kind of the entry.
WalkItemsSuffixFirst(dir, items, k) ==
    IF k > Len(items) THEN << >>
    ELSE LET fullPath == dir \o << "/" >> \o items[k]
         IN  ( IF endsWith(items[k], dotTemplate) THEN << fullPath >>
               ELSE IF isDirectory(fullPath) THEN getAllTemplateFiles(fullPath)
               ELSE << >> )
             \o WalkItems(dir, items, k + 1)

WalkItems(dir, items, k) ==
    IF k > Len(items) THEN << >>
    ELSE LET fullPath == dir \o << "/" >> \o items[k]
         IN  ( IF isDirectory(fullPath) THEN getAllTemplateFiles(fullPath)
               ELSE IF endsWith(items[k], dotTemplate) THEN << fullPath >>
               ELSE << >> )
             \o WalkItems(dir, items, k + 1)

\* fs.readdirSync(dir) throws when dir exists and is not a directory.
WalkThrows(dir) == existsSync(dir) /\ ~isDirectory(dir)


(***************************************************************************)
(* createInitials and copyInitialTemplatesFromFolder.  version names the   *)
(* revision of the source that runs: "create_initials.ts" is the current   *)
(* file, "create_dependencies_pubspec_last_avaible.ts" the revision of     *)
(* createInitials kept in that file, "unnamed/part_000" the revision that  *)
(* filters the test templates and downloads with getTemplatesFile.         *)
(***************************************************************************)

Current == "create_initials.ts"
Previous == "create_dependencies_pubspec_last_avaible.ts"
Filtered == "unnamed/part_000"

\* The part of s after its last mark sep (all of s when sep is absent):
\* rootFolder.split(sep)[length - 1].
LastSplit(s, sep) ==
    LET at == { i \in 1..Len(s) : s[i] = sep }
    IN  IF at = { } THEN s
        ELSE SubSeq(s, (CHOOSE i \in at : \A j \in at : j <= i) + 1, Len(s))

getRootFolder == rootFolder
getClickedFolder == replaceAll(clickedFolder, << "\\" >>, << "/" >>)
getPackageName == LastSplit(getRootFolder, "\\")

\* `${rootFolder}/.my_templates/flutter_tdd_clean_templates`
TemplateBaseFolder(root) ==
    root \o << "/", ".", "my", "_", "templates", "/", "flutter", "_", "tdd", "_", "clean", "_",
               "templates" >>

initialFolders == << << "config" >>, << "core" >>, << "test" >> >>

\* A destination mapping that sends the config and the core templates to
\* one folder.
DestinationRootOneLib(root, folderType) ==
    IF folderType \in { << "config" >>, << "core" >> } THEN root \o << "/", "lib", "/" >>
    ELSE IF folderType = << "test" >> THEN root \o << "/", "test", "/" >>
    ELSE root \o << "/" >> \o folderType \o << "/" >>

\* A destination mapping that sends the test templates below lib/ as well.
DestinationRootAllUnderLib(root, folderType) ==
    IF folderType = << "config" >> THEN root \o << "/", "lib", "/", "config", "/" >>
    ELSE IF folderType = << "core" >> THEN root \o << "/", "lib", "/", "core", "/" >>
    ELSE root \o << "/", "lib", "/" >> \o folderType \o << "/" >>

\* The destination root of a folder type, and the destination path of a
\* template file before the suffix step.
DestinationRoot(root, folderType) ==
    IF folderType = << "config" >> THEN root \o << "/", "lib", "/", "config", "/" >>
    ELSE IF folderType = << "core" >> THEN root \o << "/", "lib", "/", "core", "/" >>
    ELSE IF folderType = << "test" >> THEN root \o << "/", "test", "/" >>
    ELSE root \o << "/" >> \o folderType \o << "/" >>

RelativePath(templateFile, templateFolder) ==
    replace(templateFile, templateFolder \o << "/" >>, << >>)

\* "Remove .template extension": replace(/\.template$/, '.dart') in the
\* current file, replace(".template", "") in the previous revision.
RemoveTemplateExtension(destinationPath) ==
    IF version = Previous THEN replace(destinationPath, dotTemplate, << >>)
    ELSE IF endsWith(destinationPath, dotTemplate)
         THEN SubSeq(destinationPath, 1, Len(destinationPath) - Len(dotTemplate)) \o dotDart
         ELSE destinationPath

\* content.replace(/package:gymtor\//g, `package:${packageName}/`)
fixDartImports(content, packageName) ==
    replaceAll(content, << "package", ":", "gymtor", "/" >>,
               << "package", ":" >> \o packageName \o << "/" >>)

\* The destination path and the contents copyInitialTemplatesFromFolder
\* computes for one template file.
DestinationPath(templateFile, l) ==
    replacePlaceholdersInPath(
        RemoveTemplateExtension(
            DestinationRoot(l.rootFolder, l.folderType)
                \o RelativePath(templateFile, l.templateFolder)),
        InitialsPlaceholders(l.clickedFolder, l.packageName, l.rootFolder))

TemplateContent(templateFile, l) ==
    IF version = Filtered
    THEN replacePlaceholdersInContent(readFileSync(templateFile),
            InitialsPlaceholders(l.clickedFolder, l.packageName, l.rootFolder))
    ELSE fixDartImports(
            replacePlaceholdersInContent(readFileSync(templateFile),
                InitialsPlaceholders(l.clickedFolder, l.packageName, l.rootFolder)),
            l.packageName)

\* The folders of the test templates that the filtering revision copies.
allowedTestFolders == << << "core" >>, << "fixtures" >> >>

\* A filter that takes every folder of the test templates.
FilterTakesAll(testFolder) == getAllTemplateFiles(testFolder)

\* getFilteredTestTemplateFiles(testFolder): the walks of the allowed
\* folders that exist, one after the other.
getFilteredTestTemplateFiles(testFolder) ==
    IF ~existsSync(testFolder) THEN << >>
    ELSE LET FolderFiles(n) ==
                 IF existsSync(testFolder \o << "/" >> \o allowedTestFolders[n])
                 THEN getAllTemplateFiles(testFolder \o << "/" >> \o allowedTestFolders[n])
                 ELSE << >>
         IN  FolderFiles(1) \o FolderFiles(2)

\* "PASO 1" of copyInitialTemplatesFromFolder: the template files of a
\* folder, and whether getting them throws.
TemplateFilesOf(templateFolder, folderType) ==
    IF version = Filtered /\ folderType = << "test" >>
    THEN getFilteredTestTemplateFiles(templateFolder)
    ELSE getAllTemplateFiles(templateFolder)

TemplateFilesThrows(templateFolder, folderType) ==
    IF version = Filtered /\ folderType = << "test" >>
    THEN \E n \in 1..Len(allowedTestFolders) :
            WalkThrows(templateFolder \o << "/" >> \o allowedTestFolders[n])
    ELSE WalkThrows(templateFolder)

\* The locals of createInitials once its first lines have run.
InitialsLocals ==
    LET root == replaceAll(getRootFolder, << "\\" >>, << "/" >>)
    IN  [ caller |-> "createInitials",
          clickedFolder |-> getClickedFolder,
          rootFolder |-> root,
          packageName |-> replaceAll(getPackageName, << "\\" >>, << "/" >>),
          templateBaseFolder |-> TemplateBaseFolder(root),
          i |-> 1, totalFilesCreated |-> 0,
          templateFolder |-> << >>, folderType |-> << >>,
          templateFiles |-> << >>, k |-> 1, filesCreated |-> 0 ]

\* createInitials up to its first suspension: the template folder check.
CreateInitials ==
    /\ pc = "start"
    /\ loc' = InitialsLocals
    /\ pc' = IF existsSync(InitialsLocals.templateBaseFolder) THEN "folders" ELSE "prompt"
    /\ UNCHANGED << inputVars, diskVars, text, placeholders, result >>

\* The user answers 'No' to the download prompt (or dismisses it).
AnswerNo ==
    /\ pc = "prompt"
    /\ msgs' = Append(msgs, << "error", "Cannot continue without templates!" >>)
    /\ pc' = "done"
    /\ UNCHANGED << inputVars, fs, written, text, placeholders, result, loc >>

\* A createInitials that goes on to copy the templates after the download.
AnswerYesThenCopies ==
    /\ pc = "prompt"
    /\ ~MkdirBlocked(fs, TemplateBaseFolder(getRootFolder))
    /\ fs' = writeFile(
                mkdir(fs, TemplateBaseFolder(getRootFolder) \o << "/", "core" >>),
                TemplateBaseFolder(getRootFolder) \o << "/", "core", "/", "foo", ".", "template" >>,
                << "foo" >>)
    /\ msgs' = Append(msgs, << "info", "Templates downloaded successfully!" >>)
    /\ pc' = "folders"
    /\ UNCHANGED << inputVars, written, text, placeholders, result, loc >>

\* The user answers 'Yes': downloadInitialTemplates runs.  It makes the
\* template folder, then the download module is missing ("noModule"), the
\* recursive download fails ("fails") or completes ("ok").
AnswerYes ==
    /\ pc = "prompt"
    /\ version # Filtered
    /\ ~MkdirBlocked(fs, TemplateBaseFolder(getRootFolder))
    /\ \E outcome \in { "noModule", "fails", "ok" } :
          /\ fs' = IF outcome = "ok"
                   THEN writeFile(
                          mkdir(fs, TemplateBaseFolder(getRootFolder) \o << "/", "core" >>),
                          TemplateBaseFolder(getRootFolder)
                              \o << "/", "core", "/", "foo", ".", "template" >>,
                          << "foo" >>)
                   ELSE mkdir(fs, TemplateBaseFolder(getRootFolder))
          /\ msgs' = CASE outcome = "noModule" ->
                            msgs \o << << "error", "gh-retrieve module not found" >>,
                                       << "info", "Templates downloaded successfully! Please run the command again." >> >>
                       [] outcome = "fails" ->
                            Append(msgs, << "error", "Error downloading templates" >>)
                       [] outcome = "ok" ->
                            msgs \o << << "info", "Templates downloaded successfully!" >>,
                                       << "info", "Templates downloaded successfully! Please run the command again." >> >>
          /\ pc' = IF outcome = "fails" THEN "rejected" ELSE "done"
    /\ UNCHANGED << inputVars, written, text, placeholders, result, loc >>


\* One turn of the loop over initialFolders in createInitials, up to the
\* call of copyInitialTemplatesFromFolder; after the last folder, the summary.
NextFolder ==
    /\ pc = "folders"
    /\ IF loc.i > Len(initialFolders)
       THEN /\ msgs' = Append(msgs,
                          IF loc.totalFilesCreated > 0
                          THEN << "info", "Initial setup completed!", loc.totalFilesCreated >>
                          ELSE << "warning", "No template files were found to create." >>)
            /\ pc' = "done"
            /\ loc' = loc
       ELSE LET folder == initialFolders[loc.i]
                folderPath == loc.templateBaseFolder \o << "/" >> \o folder
            IN  IF ~existsSync(folderPath)
                THEN /\ msgs' = Append(msgs, << "warning", "Folder not found in templates", folder >>)
                     /\ loc' = [ loc EXCEPT !.i = @ + 1 ]
                     /\ pc' = "folders"
                ELSE IF TemplateFilesThrows(folderPath, folder)
                THEN /\ msgs' = Append(msgs, << "error", "Error creating initial templates" >>)
                     /\ loc' = loc
                     /\ pc' = "rejected"
                ELSE /\ msgs' = msgs
                     /\ loc' = [ loc EXCEPT !.templateFolder = folderPath,
                                            !.folderType = folder,
                                            !.templateFiles = TemplateFilesOf(folderPath, folder),
                                            !.k = 1,
                                            !.filesCreated = 0 ]
                     /\ pc' = "copy"
    /\ UNCHANGED << inputVars, fs, written, text, placeholders, result >>

\* copyInitialTemplatesFromFolder called on one of the template folders,
\* whether it exists or not.
CallCopyInitialTemplatesFromFolder ==
    /\ pc = "start"
    /\ \E n \in 1..Len(initialFolders) :
          LET folderPath == InitialsLocals.templateBaseFolder \o << "/" >> \o initialFolders[n]
          IN  /\ ~TemplateFilesThrows(folderPath, initialFolders[n])
              /\ loc' = [ InitialsLocals EXCEPT !.caller = "direct",
                                                !.templateFolder = folderPath,
                                                !.folderType = initialFolders[n],
                                                !.templateFiles =
                                                    TemplateFilesOf(folderPath, initialFolders[n]) ]
    /\ pc' = "copy"
    /\ UNCHANGED << inputVars, diskVars, text, placeholders, result >>

\* One turn of the loop over templateFiles, through the awaited write.
\* Reading the template throws ("readFails"), writeFileExtPromise rejects
\* ("writeFails": at the write, or at the directory creation when a
\* component of the directory is a file), or the file is written ("ok").
CopyTemplate ==
    /\ pc = "copy"
    /\ loc.k <= Len(loc.templateFiles)
    /\ \E destinationPath \in { DestinationPath(loc.templateFiles[loc.k], loc) },
          templateContent \in { TemplateContent(loc.templateFiles[loc.k], loc) },
          outcome \in { "readFails", "writeFails", "ok" } :
          LET blocked == MkdirBlocked(fs, dirname(destinationPath))
          IN  /\ outcome = "ok" =>
                    ~blocked /\ ~WriteBlocked(mkdir(fs, dirname(destinationPath)), destinationPath)
              /\ fs' = CASE outcome = "ok" ->
                              writeFile(mkdir(fs, dirname(destinationPath)), destinationPath,
                                        templateContent)
                         [] outcome = "writeFails" /\ ~blocked ->
                              mkdir(fs, dirname(destinationPath))
                         [] OTHER -> fs
              /\ written' = IF outcome = "ok"
                            THEN Append(written, << destinationPath, templateContent,
                                                   loc.templateFiles[loc.k] >>)
                            ELSE written
              /\ msgs' = IF outcome = "ok" THEN msgs
                         ELSE Append(msgs, << "error", "Error processing template",
                                              loc.templateFiles[loc.k] >>)
              /\ loc' = [ loc EXCEPT !.k = @ + 1,
                                     !.filesCreated = IF outcome = "ok" THEN @ + 1 ELSE @ ]
    /\ pc' = "copy"
    /\ UNCHANGED << inputVars, text, placeholders, result >>

\* copyInitialTemplatesFromFolder returns filesCreated; createInitials adds
\* it to its total and announces it.
CopyReturn ==
    /\ pc = "copy"
    /\ loc.k > Len(loc.templateFiles)
    /\ IF loc.caller = "createInitials"
       THEN /\ msgs' = Append(msgs, << "info", "Created files from templates",
                                       loc.filesCreated, loc.folderType >>)
            /\ loc' = [ loc EXCEPT !.totalFilesCreated = @ + loc.filesCreated, !.i = @ + 1 ]
            /\ result' = result
            /\ pc' = "folders"
       ELSE /\ msgs' = msgs
            /\ loc' = loc
            /\ result' = loc.filesCreated
            /\ pc' = "returned"
    /\ UNCHANGED << inputVars, fs, written, text, placeholders >>

(***************************************************************************)
(* Specification SpecInitials: the template folder is filled, then         *)
(* createInitials (or copyInitialTemplatesFromFolder alone) runs, in the   *)
(* current revision; SpecInitialsPrevious runs the previous revision.      *)
(***************************************************************************)

\* The most template files put into the template folder.
MaxTemplates == 2

\* Workspace folders: a plain one, and one with ".template" in a directory name.
Roots ==
    { << "/", "work", "/", "app" >>,
      << "/", "work", "/", "my", ".", "template", "/", "app" >> }

\* Template files: << folder, path below the folder, contents >>.
TemplateChoices ==
    { << << "config" >>, << "app", "_", "config", ".", "template" >>, << "foo" >> >>,
      << << "core" >>, << "api", "/", "api", ".", "template" >>,
         << "import", "package", ":", "gymtor", "/", "core", "/", "{{", "package", "_", "name",
            ".", "snake", "Case", "}}" >> >>,
      << << "core" >>, << "my", ".", "template", "/", "foo", ".", "template" >>, << "foo" >> >>,
      << << "core" >>, << "{{", "package", "_", "name", ".", "snake", "Case", "}}", ".", "template" >>,
         << "{{", "custom", "_", "folder", "}}" >> >>,
      << << "test" >>, << "core", "/", "api", "_", "test", ".", "template" >>, << "foo" >> >>,
      << << "test" >>, << "usecase", "/", "foo", ".", "template" >>, << "bar" >> >> }

\* The files on disk.
FilesOf(f) == { p \in DOMAIN f : ~f[p].dir }

InitInitials ==
    /\ version = Current
    /\ rootFolder \in Roots
    /\ clickedFolder = rootFolder \o << "/", "lib" >>
    /\ usecaseName = << >>
    /\ pubDev = { }
    /\ fs = EmptyFs
    /\ msgs = << >>
    /\ written = << >>
    /\ text = << >>
    /\ placeholders = << >>
    /\ result = << >>
    /\ loc = << >>
    /\ pc = "start"

InitInitialsPrevious ==
    /\ version = Previous
    /\ rootFolder \in Roots
    /\ clickedFolder = rootFolder \o << "/", "lib" >>
    /\ usecaseName = << >>
    /\ pubDev = { }
    /\ fs = EmptyFs
    /\ msgs = << >>
    /\ written = << >>
    /\ text = << >>
    /\ placeholders = << >>
    /\ result = << >>
    /\ loc = << >>
    /\ pc = "start"

\* Somebody makes the template folder, or its first initial folder.
MkTemplateFolder ==
    /\ pc = "start"
    /\ \E dir \in { TemplateBaseFolder(rootFolder),
                    TemplateBaseFolder(rootFolder) \o << "/" >> \o initialFolders[1] } :
          /\ ~existsSync(dir)
          /\ fs' = mkdir(fs, dir)
    /\ UNCHANGED << inputVars, msgs, written, text, placeholders, result, loc, pc >>

\* Somebody puts a template file into the template folder.
AddTemplate ==
    /\ pc = "start"
    /\ Cardinality(FilesOf(fs)) < MaxTemplates
    /\ \E t \in TemplateChoices :
          LET path == TemplateBaseFolder(rootFolder) \o << "/" >> \o t[1] \o << "/" >> \o t[2]
          IN  /\ ~existsSync(path)
              /\ fs' = writeFile(mkdir(fs, dirname(path)), path, t[3])
    /\ UNCHANGED << inputVars, msgs, written, text, placeholders, result, loc, pc >>

NextInitials ==
    \/ MkTemplateFolder
    \/ AddTemplate
    \/ CreateInitials
    \/ AnswerNo
    \/ AnswerYes
    \/ NextFolder
    \/ CallCopyInitialTemplatesFromFolder
    \/ CopyTemplate
    \/ CopyReturn

SpecInitials == InitInitials /\ [][NextInitials]_vars

SpecInitialsPrevious == InitInitialsPrevious /\ [][NextInitials]_vars


(***************************************************************************)
(* Specification SpecWalk: a directory tree is built entry by entry under  *)
(* WalkDir, then getAllTemplateFiles(WalkDir) is called.                   *)
(***************************************************************************)

\* The most entries below the walked directory.
MaxNodes == 3

WalkDir == << "/", "work", "/", "templates" >>

\* Entry names: two with the template suffix, one without, one plain.
WalkNames ==
    { << "foo", ".", "template" >>, << "bar", ".", "template" >>, << "foo", ".", "dart" >>,
      << "core" >> }

InitWalk ==
    /\ version = Current
    /\ rootFolder = << "/", "work", "/", "app" >>
    /\ clickedFolder = << "/", "work", "/", "app", "/", "lib" >>
    /\ usecaseName = << >>
    /\ pubDev = { }
    /\ fs = EmptyFs
    /\ msgs = << >>
    /\ written = << >>
    /\ text = << >>
    /\ placeholders = << >>
    /\ result = << >>
    /\ loc = << >>
    /\ pc = "start"

\* Somebody makes the walked directory, or a file at its path.
MkWalkDir ==
    /\ pc = "start"
    /\ ~existsSync(WalkDir)
    /\ \E isDir \in BOOLEAN :
          fs' = AddNode(fs, WalkDir, IF isDir THEN DirNode ELSE FileNode(<< "foo" >>))
    /\ UNCHANGED << inputVars, msgs, written, text, placeholders, result, loc, pc >>

\* Somebody makes a file or a directory in one of the directories of the tree.
MkEntry ==
    /\ pc = "start"
    /\ Cardinality(DOMAIN fs \ { WalkDir }) < MaxNodes
    /\ \E parent \in { d \in DOMAIN fs : fs[d].dir }, name \in WalkNames, isDir \in BOOLEAN :
          /\ ~existsSync(parent \o << "/" >> \o name)
          /\ fs' = AddNode(fs, parent \o << "/" >> \o name,
                           IF isDir THEN DirNode ELSE FileNode(<< "foo" >>))
    /\ UNCHANGED << inputVars, msgs, written, text, placeholders, result, loc, pc >>

\* getAllTemplateFiles(WalkDir)
Walk ==
    /\ pc = "start"
    /\ IF WalkThrows(WalkDir)
       THEN /\ result' = result
            /\ pc' = "threw"
       ELSE /\ result' = getAllTemplateFiles(WalkDir)
            /\ pc' = "walked"
    /\ UNCHANGED << inputVars, diskVars, text, placeholders, loc >>

NextWalk ==
    \/ MkWalkDir
    \/ MkEntry
    \/ Walk

SpecWalk == InitWalk /\ [][NextWalk]_vars

(***************************************************************************)
(* Properties of the walk and of createInitials.                           *)
(***************************************************************************)

\* p starts with the sequence q.
HasPrefix(p, q) == Len(q) <= Len(p) /\ SubSeq(p, 1, Len(q)) = q

\* p lies below the directory d.
Below(p, d) == HasPrefix(p, d \o << "/" >>)

\* The place of name in the enumeration of directory d.
PlaceIn(d, name) == CHOOSE k \in 1..Len(fs[d].items) : fs[d].items[k] = name

\* The entry of directory d on the way to p (p below d).
EntryToward(d, p) ==
    CHOOSE name \in { fs[d].items[k] : k \in 1..Len(fs[d].items) } :
        p = d \o << "/" >> \o name \/ Below(p, d \o << "/" >> \o name)

\* p comes before q in a depth-first walk that follows the enumeration order:
\* in the deepest directory above both, the entry toward p is enumerated first.
WalkedBefore(p, q) ==
    \E d \in DOMAIN fs :
        /\ fs[d].dir /\ Below(p, d) /\ Below(q, d)
        /\ EntryToward(d, p) # EntryToward(d, q)
        /\ PlaceIn(d, EntryToward(d, p)) < PlaceIn(d, EntryToward(d, q))

\* The non-directory entries below dir whose name ends in ".template".
TemplateFilesBelow(dir) ==
    { p \in DOMAIN fs : Below(p, dir) /\ ~fs[p].dir /\ endsWith(basename(p), dotTemplate) }

\* C9: getAllTemplateFiles(dir) returns exactly the non-directory entries at
\* any depth below dir whose name ends in ".template", each once, in
\* depth-first order following the enumeration order of each directory; a
\* directory is descended whatever its name and is never returned.
C9_WalkReturnsTemplateFiles ==
    pc = "walked" =>
        /\ { result[i] : i \in 1..Len(result) } = TemplateFilesBelow(WalkDir)
        /\ Len(result) = Cardinality(TemplateFilesBelow(WalkDir))
        /\ \A i, j \in 1..Len(result) : i < j => WalkedBefore(result[i], result[j])

\* C9 happens: a walk over a tree with a directory named "*.template" that
\* holds a template file, next to another template file.
C9_Witness ==
    /\ pc = "walked"
    /\ Len(result) = 2
    /\ \E d \in DOMAIN fs :
          fs[d].dir /\ endsWith(d, dotTemplate) /\ \E i \in 1..2 : Below(result[i], d)


\* The template folder of an initial folder, and the initial folder and the
\* relative path of a template file found in it.
InitialTemplateFolder(folder) == TemplateBaseFolder(rootFolder) \o << "/" >> \o folder

FolderTypeOf(templateFile) ==
    CHOOSE folder \in { initialFolders[n] : n \in 1..Len(initialFolders) } :
        Below(templateFile, InitialTemplateFolder(folder))

RelativeOf(templateFile) ==
    SubSeq(templateFile, Len(InitialTemplateFolder(FolderTypeOf(templateFile))) + 2,
           Len(templateFile))

\* A path without its last two lexemes (its ".template" or ".dart" suffix).
WithoutSuffix(p) == SubSeq(p, 1, Len(p) - 2)

\* Where the templates of an initial folder are to be written.
ExpectedRoot(folder) ==
    CASE folder = << "config" >> -> rootFolder \o << "/", "lib", "/", "config", "/" >>
      [] folder = << "core" >> -> rootFolder \o << "/", "lib", "/", "core", "/" >>
      [] folder = << "test" >> -> rootFolder \o << "/", "test", "/" >>

\* The placeholders of the run, from the inputs.
RunPlaceholders == InitialsPlaceholders(getClickedFolder, getPackageName, rootFolder)

\* C7: every file copyInitialTemplatesFromFolder writes has a destination
\* path that ends in ".dart" in place of the trailing ".template" of the
\* template file name, and the rest of the path is the rewritten destination
\* of the template, untouched by the suffix step, also when the project root
\* holds ".template".
C7_SuffixReplacedAtEndOnly ==
    \A n \in 1..Len(written) :
        /\ endsWith(written[n][1], dotDart)
        /\ WithoutSuffix(written[n][1])
             = replacePlaceholdersInPath(
                   ExpectedRoot(FolderTypeOf(written[n][3]))
                       \o WithoutSuffix(RelativeOf(written[n][3])),
                   RunPlaceholders)

C10_MissingRootIsEmpty ==
    (pc \in { "copy", "returned" } /\ loc.caller = "direct" /\ ~existsSync(loc.templateFolder))
        => /\ loc.templateFiles = << >>
           /\ written = << >>
           /\ msgs = << >>
           /\ FilesOf(fs) \subseteq TemplateFilesBelow(TemplateBaseFolder(rootFolder))
           /\ pc = "returned" => result = 0

\* C10 happens: copyInitialTemplatesFromFolder has returned from a call on
\* a folder that does not exist, in a template folder that holds templates.
C10_Witness ==
    /\ pc = "returned"
    /\ loc.caller = "direct"
    /\ ~existsSync(loc.templateFolder)
    /\ FilesOf(fs) # { }


(***************************************************************************)
(* The createUsecase command: the template check of the command handler    *)
(* (usecaseTemplatesOk), then createUsecase with processUsecaseTemplate.   *)
(***************************************************************************)

\* The positions of the mark sep in s, and s.split(sep).
MarksOf(s, sep) == { i \in 1..Len(s) : s[i] = sep }

Split(s, sep) ==
    LET cuts == { 0 } \cup MarksOf(s, sep) \cup { Len(s) + 1 }
        Nth[k \in 1..Cardinality(cuts)] ==
            CHOOSE i \in cuts : Cardinality({ j \in cuts : j < i }) = k - 1
    IN  [ k \in 1..(Cardinality(cuts) - 1) |-> SubSeq(s, Nth[k] + 1, Nth[k + 1] - 1) ]

\* Array.prototype.indexOf from position from on, 1-based; 0 when absent.
ArrayIndexOf(array, item, from) ==
    IF \E k \in from..Len(array) : array[k] = item
    THEN CHOOSE k \in from..Len(array) :
            array[k] = item /\ \A j \in from..(k - 1) : array[j] # item
    ELSE 0

getFeatureNameFromPath(folder) ==
    LET pathParts == Split(folder, "/")
        srcIndex == ArrayIndexOf(pathParts, << "src" >>, 1)
        domainIndex == ArrayIndexOf(pathParts, << "domain" >>, 1)
    IN  IF srcIndex # 0 /\ srcIndex + 1 <= Len(pathParts) THEN pathParts[srcIndex + 1]
        ELSE IF domainIndex # 0 /\ domainIndex - 1 >= 1 THEN pathParts[domainIndex - 1]
        ELSE IF Len(pathParts) >= 2 THEN pathParts[Len(pathParts) - 1]
        ELSE << >>

\* A path as the process sees it: a relative path is taken from the
\* working directory cwd ("/" is the empty cwd).
FromCwd(cwd, path) == IF path # << >> /\ path[1] = "/" THEN path ELSE cwd \o << "/" >> \o path

\* uri.path.substring(1, uri.path.indexOf('/lib'))
UriRootFolder(uriPath) ==
    LET at == indexOf(uriPath, << "/", "lib" >>)
    IN  IF at <= 1 THEN SubSeq(uriPath, 1, 1) ELSE SubSeq(uriPath, 2, at - 1)

usecaseFileName == << "_", "usecase", ".", "template" >>
usecaseTestFileName == << "_", "usecase", "_", "test", ".", "template" >>
featureParams == << "/", "feature", "/", "usecase", "/", "params", "/" >>
testParams == << "/", "test", "/", "usecase", "/", "params", "/" >>

\* The template paths usecaseTemplatesOk requires.
requiredTemplates(templateBaseFolder) ==
    << templateBaseFolder \o featureParams
           \o StyledToken(usecase_name, snakeCaseLabel) \o usecaseFileName,
       templateBaseFolder \o testParams
           \o StyledToken(usecase_name, snakeCaseLabel) \o usecaseTestFileName >>

usecaseTemplatesOk(cwd, uriPath) ==
    \A n \in 1..2 :
        existsSync(FromCwd(cwd, requiredTemplates(TemplateBaseFolder(UriRootFolder(uriPath)))[n]))

\* The usecaseTemplates array of createUsecase.
usecaseTemplates(root, featureName, name) ==
    << [ templatePath |-> TemplateBaseFolder(root) \o featureParams \o name \o usecaseFileName,
         destinationPath |-> root \o << "/", "lib", "/", "src", "/" >> \o featureName
                               \o << "/", "domain", "/", "usecases", "/" >> \o name
                               \o << "_", "usecase", ".", "dart" >>,
         type |-> "usecase" ],
       [ templatePath |-> TemplateBaseFolder(root) \o testParams \o name \o usecaseTestFileName,
         destinationPath |-> root \o << "/", "test", "/", "src", "/" >> \o featureName
                               \o << "/", "domain", "/", "usecases", "/" >> \o name
                               \o << "_", "usecase", "_", "test", ".", "dart" >>,
         type |-> "test" ] >>

\* The allPlaceholders object of replacePlaceholdersInContent in createUsecase.
UsecasePlaceholders(featureName, name, package, clicked, root) ==
    << << feature_name, featureName >>, << usecase_name, name >>, << package_name, package >>,
       << custom_folder, clicked >>, << root_folder, root >> >>

\* The command handler up to its first suspension after the template check.
CreateUsecaseCommand ==
    /\ pc = "start"
    /\ \E cwd \in { << >>, << "/", "work" >> } :
          /\ loc' = [ cwd |-> cwd ]
          /\ pc' = IF usecaseTemplatesOk(cwd, clickedFolder) THEN "input" ELSE "promptUsecase"
    /\ UNCHANGED << inputVars, diskVars, text, placeholders, result >>

\* The user declines the download.
UsecaseAnswerNo ==
    /\ pc = "promptUsecase"
    /\ msgs' = msgs \o << << "info", "Tip: Look for templates in github" >>,
                          << "error", "Cannot continue without templates!" >> >>
    /\ pc' = "done"
    /\ UNCHANGED << inputVars, fs, written, text, placeholders, result, loc >>

\* The user accepts the download: getTemplatesFile makes .my_templates and
\* downloads, or reports that the download failed.
UsecaseAnswerYes ==
    /\ pc = "promptUsecase"
    /\ ~MkdirBlocked(fs, getRootFolder \o << "/", ".", "my", "_", "templates" >>)
    /\ fs' = mkdir(fs, getRootFolder \o << "/", ".", "my", "_", "templates" >>)
    /\ \E ok \in BOOLEAN :
          msgs' = msgs \o << IF ok THEN << "info", "Templates downloaded successfully!" >>
                             ELSE << "error", "Error downloading templates" >>,
                             << "info", "Templates downloaded! Please run the command again." >> >>
    /\ pc' = "done"
    /\ UNCHANGED << inputVars, written, text, placeholders, result, loc >>


CurrentUsecase == "commands/create_usecase.ts"

\* What the user may type into the input box (validateInput refuses the
\* empty name and names with spaces).
UsecaseNames == { << "login", "_", "user" >>, << "Login", "User" >> }

\* The input box closes: with a name, or dismissed.  createUsecase then
\* runs up to its loop over usecaseTemplates.
EnterUsecaseName ==
    /\ pc = "input"
    /\ \E name \in UsecaseNames \cup { << >> } :
          LET root == replaceAll(getRootFolder, << "\\" >>, << "/" >>)
              featureName == getFeatureNameFromPath(getClickedFolder)
          IN  /\ usecaseName' = name
              /\ IF name = << >>
                 THEN /\ msgs' = msgs
                      /\ loc' = loc
                      /\ pc' = "done"
                 ELSE IF featureName = << >>
                 THEN /\ msgs' = Append(msgs, << "error", "Could not determine feature name" >>)
                      /\ loc' = loc
                      /\ pc' = "done"
                 ELSE /\ msgs' = msgs
                      /\ loc' = [ cwd |-> loc.cwd,
                                  clickedFolder |-> getClickedFolder,
                                  rootFolder |-> root,
                                  packageName |-> replaceAll(getPackageName, << "\\" >>, << "/" >>),
                                  featureName |-> featureName,
                                  usecaseTemplates |-> usecaseTemplates(root, featureName, name),
                                  j |-> 1, filesCreated |-> 0 ]
                      /\ pc' = "templates"
    /\ UNCHANGED << version, rootFolder, clickedFolder, pubDev, fs, written, text, placeholders, result >>

\* One turn of the loop over usecaseTemplates, through the awaited
\* processUsecaseTemplate: the template is missing, reading it throws,
\* writeFileExtPromise rejects, or the file is written.
ProcessUsecaseTemplate ==
    /\ pc = "templates"
    /\ loc.j <= Len(loc.usecaseTemplates)
    /\ LET template == loc.usecaseTemplates[loc.j]
       IN  IF ~existsSync(FromCwd(loc.cwd, template.templatePath))
           THEN /\ msgs' = Append(msgs, << "warning", "Template not found", template.templatePath >>)
                /\ loc' = [ loc EXCEPT !.j = @ + 1 ]
                /\ pc' = "templates"
                /\ UNCHANGED << fs, written >>
           ELSE \E outcome \in { "readFails", "writeFails", "ok" } :
                  LET blocked == MkdirBlocked(fs, dirname(template.destinationPath))
                  IN  /\ outcome = "ok" =>
                            /\ ~blocked
                            /\ ~isDirectory(template.templatePath)
                            /\ ~WriteBlocked(mkdir(fs, dirname(template.destinationPath)),
                                             template.destinationPath)
                      /\ IF outcome = "ok"
                         THEN \E templateContent \in
                                 { fixDartImports(
                                     replacePlaceholdersInContent(
                                         readFileSync(template.templatePath),
                                         UsecasePlaceholders(loc.featureName, usecaseName,
                                             loc.packageName, loc.clickedFolder, loc.rootFolder)),
                                     loc.packageName) } :
                                 /\ fs' = writeFile(mkdir(fs, dirname(template.destinationPath)),
                                                    template.destinationPath, templateContent)
                                 /\ written' = Append(written,
                                                  << template.destinationPath, templateContent,
                                                     template.templatePath >>)
                                 /\ msgs' = msgs
                                 /\ loc' = [ loc EXCEPT !.j = @ + 1, !.filesCreated = @ + 1 ]
                                 /\ pc' = "templates"
                         ELSE /\ fs' = IF outcome = "writeFails" /\ ~blocked
                                       THEN mkdir(fs, dirname(template.destinationPath))
                                       ELSE fs
                              /\ written' = written
                              /\ msgs' = Append(msgs, << "error", "Error creating use case" >>)
                              /\ loc' = loc
                              /\ pc' = "rejected"
    /\ UNCHANGED << inputVars, text, placeholders, result >>

\* After the loop: the summary message.
FinishUsecase ==
    /\ pc = "templates"
    /\ loc.j > Len(loc.usecaseTemplates)
    /\ msgs' = Append(msgs,
                  IF loc.filesCreated > 0
                  THEN << "info", "Use Case created successfully!", usecaseName, loc.filesCreated >>
                  ELSE << "error", "No files were created. Please check that the templates exist." >>)
    /\ pc' = "done"
    /\ UNCHANGED << inputVars, fs, written, text, placeholders, result, loc >>

(***************************************************************************)
(* Specification SpecUsecase: use-case templates are put into the template *)
(* folder, then the createUsecase command runs once.                       *)
(***************************************************************************)

\* The folders the command is invoked on.
ClickedFolders ==
    { << "/", "work", "/", "app", "/", "lib", "/", "src", "/", "auth", "/", "domain", "/",
         "usecases" >>,
      << "/", "work", "/", "app", "/", "lib", "/", "src", "/", "auth" >>,
      << "/", "work", "/", "app", "/", "test", "/", "src", "/", "auth" >> }

\* Use-case template files, << path below the template folder, contents >>:
\* the two documented ones, and files named after a use case.
UsecaseTemplateFiles ==
    { << featureParams \o StyledToken(usecase_name, snakeCaseLabel) \o usecaseFileName,
         << "import", "package", ":", "gymtor", "/", "src", "/" >> \o Token(feature_name)
             \o << "/" >> \o StyledToken(usecase_name, pascalCaseLabel) >>,
      << testParams \o StyledToken(usecase_name, snakeCaseLabel) \o usecaseTestFileName,
         << "test" >> \o StyledToken(usecase_name, camelCaseLabel) >>,
      << featureParams \o << "login", "_", "user" >> \o usecaseFileName,
         Token(feature_name) \o << "/" >> \o StyledToken(usecase_name, pascalCaseLabel) >>,
      << testParams \o << "login", "_", "user" >> \o usecaseTestFileName,
         << "test" >> \o StyledToken(usecase_name, camelCaseLabel) >>,
      << featureParams \o << "Login", "User" >> \o usecaseFileName,
         Token(feature_name) \o << "/" >> \o StyledToken(usecase_name, snakeCaseLabel) >> }

InitUsecase ==
    /\ version = CurrentUsecase
    /\ rootFolder = << "/", "work", "/", "app" >>
    /\ clickedFolder \in ClickedFolders
    /\ usecaseName = << >>
    /\ pubDev = { }
    /\ fs = EmptyFs
    /\ msgs = << >>
    /\ written = << >>
    /\ text = << >>
    /\ placeholders = << >>
    /\ result = << >>
    /\ loc = << >>
    /\ pc = "start"

\* Somebody puts a use-case template file into the template folder.
AddUsecaseTemplate ==
    /\ pc = "start"
    /\ \E t \in UsecaseTemplateFiles :
          LET path == TemplateBaseFolder(rootFolder) \o t[1]
          IN  /\ ~existsSync(path)
              /\ fs' = writeFile(mkdir(fs, dirname(path)), path, t[2])
    /\ UNCHANGED << inputVars, msgs, written, text, placeholders, result, loc, pc >>

NextUsecase ==
    \/ AddUsecaseTemplate
    \/ CreateUsecaseCommand
    \/ UsecaseAnswerNo
    \/ UsecaseAnswerYes
    \/ EnterUsecaseName
    \/ ProcessUsecaseTemplate
    \/ FinishUsecase

SpecUsecase == InitUsecase /\ [][NextUsecase]_vars


(***************************************************************************)
(* The legacy createUsecase (commands/create_usecase.ts): the templates    *)
(* come from the "layers.templates" setting, the files are written by the  *)
(* fire-and-forget writeFileExt.                                           *)
(***************************************************************************)

\* The value of a variable that was never given one.
undefined == << "undefined" >>

\* JavaScript truthiness of a string or undefined.
Truthy(v) == v # << >> /\ v # undefined

\* getTemplatesFileList: the elements that end in ".template".
getTemplatesFileList(filePathConfig) == SelectSeq(filePathConfig, LAMBDA e : endsWith(e, dotTemplate))

isFeature(item) == includes(item, feature_name)

getFeatureName(clicked, template) ==
    LET templateArray == Split(replaceName(template, Token(root_folder), getRootFolder), "/")
        clickedArray == Split(clicked, "/")
        found == { k \in 1..Len(templateArray) : isFeature(templateArray[k]) }
        featureName == templateArray[CHOOSE k \in found : \A j \in found : k <= j]
        indexOfFeatureName == IF found = { } THEN 0
                              ELSE ArrayIndexOf(templateArray, featureName, 4) - 1
        indexOfDomain == ArrayIndexOf(clickedArray, << "domain" >>, 1) - 1
    IN  IF indexOfFeatureName > 0
        THEN ( IF indexOfDomain - 1 >= 0 THEN clickedArray[indexOfDomain] ELSE undefined )
        ELSE << >>

\* The keys of the two replaceName chains, in the order of one style block.
legacyKeys == << feature_name, custom_folder, usecase_name, package_name, root_folder >>

\* The thirty replaceName calls of a chain: for each style (bare first), the
\* five keys.
LegacyCalls(values) ==
    [ n \in 1..(6 * Len(legacyKeys)) |->
        << TokenOf(legacyKeys[((n - 1) % Len(legacyKeys)) + 1], (n - 1) \div Len(legacyKeys)),
           values[((n - 1) % Len(legacyKeys)) + 1] >> ]

\* element.substring(element.lastIndexOf("/") + 1, element.length)
TemplateFileName(element) == basename(element)

\* The path chain, with its closing replaceAll(".template", ".dart").
LegacyPathFileName(element, values) ==
    replaceAll(replaceNameChain(element, LegacyCalls(values), 1), dotTemplate, dotDart)

LegacyTemplateFile(root, element) ==
    root \o << "/", ".", "my", "_", "templates", "/" >> \o TemplateFileName(element)

\* readFileSync(templateFile) throws: the file is missing or is a directory.
ReadThrows(path) == ~existsSync(path) \/ isDirectory(path)

\* Map.prototype.set on a map kept as a sequence of << key, value, element >>.
MapSet(map, key, value, element) ==
    IF \E k \in 1..Len(map) : map[k][1] = key
    THEN [ k \in 1..Len(map) |-> IF map[k][1] = key THEN << key, value, element >> ELSE map[k] ]
    ELSE Append(map, << key, value, element >>)

\* The first loop of createUsecase from element i on: the template map it
\* builds and the value it leaves in the shared featureName.
RECURSIVE LegacyCollect(_, _, _, _)
LegacyCollect(l, i, map, featureName) ==
    IF i > Len(l.templatesList) THEN [ map |-> map, featureName |-> featureName ]
    ELSE CHOOSE out \in
           { LegacyCollect(l, i + 1,
                 IF ~Truthy(feature) \/ ReadThrows(LegacyTemplateFile(l.rootFolder, element))
                      \/ readFileSync(LegacyTemplateFile(l.rootFolder, element)) = << >>
                 THEN map
                 ELSE MapSet(map,
                             LegacyPathFileName(element,
                                 << feature, l.clickedFolder, l.usecaseName, l.packageName,
                                    l.rootFolder >>),
                             readFileSync(LegacyTemplateFile(l.rootFolder, element)), element),
                 feature) :
               element \in { l.templatesList[i] },
               feature \in { getFeatureName(l.clickedFolder, l.templatesList[i]) } } : TRUE

\* The second loop: the writeFileExt calls it makes, in map order.
LegacyWrites(l, collected) ==
    [ k \in 1..Len(collected.map) |->
        << collected.map[k][1],
           replaceNameChain(collected.map[k][2],
               LegacyCalls(<< collected.featureName, l.clickedFolder, l.usecaseName,
                              l.packageName, l.rootFolder >>), 1),
           collected.map[k][3] >> ]

\* The longest "layers.templates" setting.
MaxConfig == 2

\* Template paths of the setting: with a feature segment, without one, one
\* below the destination of another, and one that is not a template.
ConfigElements ==
    { Token(root_folder) \o << "/", "lib", "/", "src", "/" >> \o Token(feature_name)
          \o << "/", "domain", "/", "usecases", "/" >>
          \o StyledToken(usecase_name, snakeCaseLabel) \o usecaseFileName,
      Token(root_folder) \o << "/", "test", "/", "src", "/" >>
          \o StyledToken(feature_name, snakeCaseLabel) \o << "/", "domain", "/", "usecases", "/" >>
          \o StyledToken(usecase_name, snakeCaseLabel) \o usecaseTestFileName,
      << "foo", "/" >> \o StyledToken(usecase_name, snakeCaseLabel) \o usecaseFileName,
      Token(root_folder) \o << "/", "lib", "/", "src", "/" >> \o Token(feature_name)
          \o << "/", "domain", "/", "usecases", "/" >>
          \o StyledToken(usecase_name, snakeCaseLabel) \o usecaseFileName \o << "/" >>
          \o StyledToken(usecase_name, snakeCaseLabel) \o usecaseFileName,
      Token(root_folder) \o << "/", "lib", "/", "src", "/" >> \o Token(feature_name) }

RECURSIVE ConfigListsOf(_)
ConfigListsOf(n) ==
    IF n = 0 THEN { << >> }
    ELSE ConfigListsOf(n - 1)
           \cup { Append(c, e) : c \in { x \in ConfigListsOf(n - 1) : Len(x) = n - 1 },
                                 e \in ConfigElements }

\* The locals left when createUsecase returns.  Every writeFileExt call it
\* made is pending with its fs.mkdir outstanding (stage "mkdir"); calls and
\* disk keep the calls in the order they were made and the files found at
\* the return, and faulted tells whether a step failed for a reason other
\* than the entries on disk.
LegacyPending(calls, filePathConfigList, featureName) ==
    [ pending |-> calls,
      stage |-> [ n \in 1..Len(calls) |-> "mkdir" ],
      calls |-> calls,
      disk |-> fs,
      faulted |-> FALSE,
      filePathConfigList |-> filePathConfigList,
      featureName |-> featureName ]

\* A sequence without its n-th element.
Without(seq, n) == [ k \in 1..(Len(seq) - 1) |-> IF k < n THEN seq[k] ELSE seq[k + 1] ]

\* createUsecase from the closing of the input box to its return: the
\* writeFileExt calls it made are pending.
CreateUsecaseLegacy ==
    /\ pc = "start"
    /\ \E name \in UsecaseNames \cup { << >> }, filePathConfigList \in ConfigListsOf(MaxConfig) :
        \E l \in { [ clickedFolder |-> getClickedFolder,
                     rootFolder |-> replaceAll(getRootFolder, << "\\" >>, << "/" >>),
                     packageName |-> replaceAll(getPackageName, << "\\" >>, << "/" >>),
                     usecaseName |-> name,
                     filePathConfigList |-> filePathConfigList,
                     templatesList |-> getTemplatesFileList(filePathConfigList) ] } :
          /\ usecaseName' = name
          /\ IF name = << >>
             THEN /\ loc' = LegacyPending(<< >>, filePathConfigList, undefined)
                  /\ pc' = "returned"
             ELSE \E collected \in { LegacyCollect(l, 1, << >>, undefined) } :
                    IF collected.map # << >> /\ collected.featureName = undefined
                    THEN /\ loc' = LegacyPending(<< >>, filePathConfigList, undefined)
                         /\ pc' = "rejected"
                    ELSE /\ loc' = LegacyPending(LegacyWrites(l, collected), filePathConfigList,
                                                collected.featureName)
                         /\ pc' = "returned"
    /\ UNCHANGED << version, rootFolder, clickedFolder, pubDev, diskVars, text, placeholders, result >>

\* A writeFileExt that does not wait for fs.mkdir before it calls
\* fs.writeFile.
WriteFileExtMkdirNoWait ==
    /\ pc = "returned"
    /\ \E n \in 1..Len(loc.pending) :
          /\ loc.stage[n] = "mkdir"
          /\ loc' = [ loc EXCEPT !.stage[n] = "write" ]
    /\ UNCHANGED << inputVars, diskVars, text, placeholders, result, pc >>

\* fs.mkdir of one pending writeFileExt call completes.  On success its
\* callback calls fs.writeFile; on an error the callback returns the error
\* to nobody and the call is over.
WriteFileExtMkdir ==
    /\ pc = "returned"
    /\ \E n \in 1..Len(loc.pending), ok \in BOOLEAN :
          LET dir == dirname(loc.pending[n][1])
              blocked == MkdirBlocked(fs, dir)
          IN  /\ loc.stage[n] = "mkdir"
              /\ ok => ~blocked
              /\ fs' = IF ok THEN mkdir(fs, dir) ELSE fs
              /\ loc' = IF ok THEN [ loc EXCEPT !.stage[n] = "write" ]
                        ELSE [ loc EXCEPT !.pending = Without(@, n),
                                          !.stage = Without(@, n),
                                          !.faulted = @ \/ ~blocked ]
    /\ UNCHANGED << inputVars, msgs, written, text, placeholders, result, pc >>

\* fs.writeFile of one pending writeFileExt call completes: its callback
\* logs "ErrorWriteFile " and the error (null on success) to the console.
WriteFileExtWriteFile ==
    /\ pc = "returned"
    /\ \E n \in 1..Len(loc.pending), ok \in BOOLEAN :
          LET path == loc.pending[n][1]
              blocked == WriteBlocked(fs, path)
          IN  /\ loc.stage[n] = "write"
              /\ ok => ~blocked
              /\ fs' = IF ok THEN writeFile(fs, path, loc.pending[n][2]) ELSE fs
              /\ written' = IF ok THEN Append(written, loc.pending[n]) ELSE written
              /\ msgs' = Append(msgs, << "console.log", "ErrorWriteFile ",
                                         IF ok THEN "null" ELSE "error" >>)
              /\ loc' = [ loc EXCEPT !.pending = Without(@, n),
                                     !.stage = Without(@, n),
                                     !.faulted = @ \/ ( ~ok /\ ~blocked ) ]
    /\ UNCHANGED << inputVars, text, placeholders, result, pc >>

(***************************************************************************)
(* Specification SpecLegacy: template files are put into .my_templates,    *)
(* then the legacy createUsecase runs once.                                *)
(***************************************************************************)

Legacy == "create_usecase.ts"

\* The template files of .my_templates: << file name, contents >>.
LegacyTemplateFiles ==
    { << StyledToken(usecase_name, snakeCaseLabel) \o usecaseFileName,
         Token(feature_name) \o << "/" >> \o StyledToken(usecase_name, pascalCaseLabel) >>,
      << StyledToken(usecase_name, snakeCaseLabel) \o usecaseTestFileName,
         << "test" >> \o StyledToken(feature_name, pascalCaseLabel) >> }

InitLegacy ==
    /\ version = Legacy
    /\ rootFolder = << "/", "work", "/", "app" >>
    /\ clickedFolder \in ClickedFolders
    /\ usecaseName = << >>
    /\ pubDev = { }
    /\ fs = EmptyFs
    /\ msgs = << >>
    /\ written = << >>
    /\ text = << >>
    /\ placeholders = << >>
    /\ result = << >>
    /\ loc = << >>
    /\ pc = "start"

\* Somebody puts a template file into .my_templates.
AddLegacyTemplate ==
    /\ pc = "start"
    /\ \E t \in LegacyTemplateFiles :
          LET path == rootFolder \o << "/", ".", "my", "_", "templates", "/" >> \o t[1]
          IN  /\ ~existsSync(path)
              /\ fs' = writeFile(mkdir(fs, dirname(path)), path, t[2])
    /\ UNCHANGED << inputVars, msgs, written, text, placeholders, result, loc, pc >>

NextLegacy ==
    \/ AddLegacyTemplate
    \/ CreateUsecaseLegacy
    \/ WriteFileExtMkdir
    \/ WriteFileExtWriteFile

SpecLegacy == InitLegacy /\ [][NextLegacy]_vars


(***************************************************************************)
(* Properties of the two createUsecase commands.                           *)
(***************************************************************************)

\* The keys and values the legacy command rewrites the path of a template
\* element with.
LegacyPathValues(element) ==
    << getFeatureName(getClickedFolder, element), getClickedFolder, usecaseName,
       getPackageName, getRootFolder >>

\* C4: path and content are rewritten consistently.  Every file the legacy
\* createUsecase writes holds the contents of its template rewritten with
\* the binding values its destination path was rewritten with (feature_name
\* in particular), whatever other templates the run processes.
C4_PathAndContentSameValues ==
    \A n \in 1..Len(written) :
        /\ written[n][1] = LegacyPathFileName(written[n][3], LegacyPathValues(written[n][3]))
        /\ written[n][2]
             = replaceNameChain(readFileSync(LegacyTemplateFile(getRootFolder, written[n][3])),
                                LegacyCalls(LegacyPathValues(written[n][3])), 1)

\* The template folder holds the two documented use-case templates.
DocumentedTemplates ==
    \A n \in 1..2 : existsSync(requiredTemplates(TemplateBaseFolder(rootFolder))[n])

\* The directories the use case and its test belong to.
UsecasesFolder(top) ==
    rootFolder \o << "/" >> \o top \o << "/", "src", "/" >>
        \o getFeatureNameFromPath(clickedFolder) \o << "/", "domain", "/", "usecases", "/" >>

\* C5: with the documented template tree on disk and a valid name entered
\* in a folder below lib/src/<feature>/, once the template check of the
\* command has passed, the command ends (without an I/O error) having
\* written the use-case file below lib/src/<feature>/domain/usecases/ and
\* its test below test/src/<feature>/domain/usecases/.
C5_DocumentedTreeIsMaterialized ==
    ( /\ pc = "done"
      /\ usecaseName \in UsecaseNames
      /\ DocumentedTemplates
      /\ includes(clickedFolder, << "/", "lib", "/", "src", "/" >>) )
        => /\ \E n \in 1..Len(written) : HasPrefix(written[n][1], UsecasesFolder(<< "lib" >>))
           /\ \E n \in 1..Len(written) : HasPrefix(written[n][1], UsecasesFolder(<< "test" >>))

\* C6: the file made from a use-case template is named by the snake_case
\* rendering of the entered name followed by "_usecase.dart" (the test by
\* "_usecase_test.dart"), never by the raw name or an unexpanded token, and
\* when the documented use-case template is on disk exactly one such
\* use-case file has been written when the command ends.
C6_SnakeCaseFileName ==
    /\ \A n \in 1..Len(written) :
          basename(written[n][1])
            \in { snakeCase(usecaseName) \o << "_", "usecase", ".", "dart" >>,
                  snakeCase(usecaseName) \o << "_", "usecase", "_", "test", ".", "dart" >> }
    /\ ( pc = "done" /\ usecaseName \in UsecaseNames
           /\ existsSync(requiredTemplates(TemplateBaseFolder(rootFolder))[1]) )
          => Cardinality({ n \in 1..Len(written) :
                             basename(written[n][1])
                               = snakeCase(usecaseName) \o << "_", "usecase", ".", "dart" >> }) = 1


(***************************************************************************)
(* Error handling of the materialization commands.                         *)
(***************************************************************************)

\* C11: best-effort batch.  When the createUsecase command has ended, every
\* artifact of the run whose template is on disk has been processed: a
\* failure while reading or writing one artifact (the command ends
\* rejected at that artifact) leaves no later artifact unprocessed.
C11_BestEffortBatch ==
    ( pc \in { "done", "rejected" } /\ "usecaseTemplates" \in DOMAIN loc )
        => \A k \in 1..Len(loc.usecaseTemplates) :
              existsSync(FromCwd(loc.cwd, loc.usecaseTemplates[k].templatePath))
                  => ( k < loc.j \/ ( pc = "rejected" /\ k = loc.j ) )


\* C12: no per-artifact error is silently swallowed.  Whenever a step of a
\* writeFileExt call of the legacy createUsecase ends the call without the
\* file having been written, something is reported for it (here: at least
\* a line on the console).
C12_NoErrorSwallowed ==
    [][ ( /\ pc = "returned" /\ pc' = "returned"
          /\ Len(loc'.pending) < Len(loc.pending)
          /\ written' = written )
            => Len(msgs') > Len(msgs) ]_vars

(***************************************************************************)
(* Concurrency of the writeFileExt calls of the legacy createUsecase.      *)
(***************************************************************************)

\* The files after the calls from the k-th on ran one after another on f,
\* each to its end: the directory is made, then the file is written.
RECURSIVE SequentialWrites(_, _, _)
SequentialWrites(f, calls, k) ==
    IF k > Len(calls) THEN f
    ELSE CHOOSE out \in
           { SequentialWrites(g, calls, k + 1) :
               g \in { IF MkdirBlocked(f, dirname(calls[k][1])) THEN f
                       ELSE IF WriteBlocked(mkdir(f, dirname(calls[k][1])), calls[k][1])
                       THEN mkdir(f, dirname(calls[k][1]))
                       ELSE writeFile(mkdir(f, dirname(calls[k][1])), calls[k][1],
                                      calls[k][2]) } } : TRUE

\* f and g hold the same directories and the same files with the same
\* contents (the order of the entries of a directory is not compared).
SameFiles(f, g) ==
    /\ DOMAIN f = DOMAIN g
    /\ \A p \in DOMAIN f : f[p].dir = g[p].dir /\ f[p].content = g[p].content

\* The destinations of the calls are pairwise distinct files.
DistinctDestinations(calls) ==
    \A i, j \in 1..Len(calls) : i # j => Resolve(calls[i][1]) # Resolve(calls[j][1])

\* No destination is a directory on the way to another destination.
NoDestinationBelowAnother(calls) ==
    \A i, j \in 1..Len(calls) :
        i # j => ~HasPrefix(Resolve(calls[j][1]), Resolve(calls[i][1]) \o << "/" >>)

\* Every call of the run is over, and no step failed but for the entries
\* on disk.
AllCallsOver == pc = "returned" /\ loc.pending = << >> /\ ~loc.faulted

OverwriteChoices ==
    { << Token(package_name) \o dotTemplate, << "foo" >> >>,
      << << "work", "/", "app" >> \o dotTemplate, << "bar" >> >>,
      << << "app", "_", "config" >> \o dotTemplate, Token(custom_folder) >> }

InitOverwrite ==
    /\ version = Current
    /\ rootFolder = << "/", "work", "/", "app" >>
    /\ clickedFolder = rootFolder \o << "/", "lib" >>
    /\ usecaseName = << >>
    /\ pubDev = { }
    /\ fs = EmptyFs
    /\ msgs = << >>
    /\ written = << >>
    /\ text = << >>
    /\ placeholders = << >>
    /\ result = << >>
    /\ loc = << >>
    /\ pc = "start"

\* Somebody puts a template file into the config folder of the templates.
AddConfigTemplate ==
    /\ pc = "start"
    /\ \E t \in OverwriteChoices :
          LET path == TemplateBaseFolder(rootFolder) \o << "/" >> \o initialFolders[1]
                          \o << "/" >> \o t[1]
          IN  /\ ~existsSync(path)
              /\ fs' = writeFile(mkdir(fs, dirname(path)), path, t[2])
    /\ UNCHANGED << inputVars, msgs, written, text, placeholders, result, loc, pc >>

NextOverwrite ==
    \/ AddConfigTemplate
    \/ CreateInitials
    \/ AnswerNo
    \/ AnswerYes
    \/ NextFolder
    \/ CallCopyInitialTemplatesFromFolder
    \/ CopyTemplate
    \/ CopyReturn

SpecOverwrite == InitOverwrite /\ [][NextOverwrite]_vars

\* The n-th written file was not written again later in the run.
LastWriteTo(n) ==
    \A m \in (n + 1)..Len(written) : Resolve(written[m][1]) # Resolve(written[n][1])

\* C13: last-write-wins.  During and after a run every destination holds
\* the content of the template processed last among those that were
\* written to it, and the count copyInitialTemplatesFromFolder returns
\* counts every written artifact, also one that was overwritten.
C13_LastWriteWins ==
    /\ \A n \in 1..Len(written) :
          LastWriteTo(n) => /\ existsSync(written[n][1])
                            /\ readFileSync(written[n][1]) = written[n][2]
    /\ pc = "returned" => result = Len(written)

\* Two distinct templates with different contents were written to one
\* destination, and the call returned 2.
C13_Witness ==
    /\ pc = "returned"
    /\ result = 2
    /\ Len(written) = 2
    /\ Resolve(written[1][1]) = Resolve(written[2][1])
    /\ written[1][3] # written[2][3]
    /\ written[1][2] # written[2][2]


(***************************************************************************)
(* Further properties of the rewriter (SpecRewrite).                       *)
(***************************************************************************)

\* Tokens of variables that createInitials does not bind.
UnboundTokens == { StyledToken(repository_name, snakeCaseLabel), Token(snakeCase_name) }

\* The number of places of s at which pat starts.
Occurrences(s, pat) == Cardinality({ i \in 1..Len(s) : MatchesAt(s, pat, i) })

\* C14: a token of a variable that the command does not bind stays in the
\* output of a pass as it is in the input, and every token of a bound
\* variable in the same text is still replaced (no token of a bound
\* variable is left, when no value brings one in).
C14_UnboundTokensLeft ==
    ( pc \in { "path", "content" } /\ NoOpeningBraces(placeholders) )
        => \A u \in UnboundTokens :
              includes(text, u)
                  => /\ Occurrences(result, u) = Occurrences(text, u)
                     /\ ~ContainsToken(result, placeholders)

\* The calls of a pass in style-major order (every key in the bare style,
\* then every key in lowerCase, ...), as the chain of the legacy
\* createUsecase orders them.
StyleMajorCalls(ph) ==
    [ n \in 1..(6 * Len(ph)) |->
        << TokenOf(ph[((n - 1) % Len(ph)) + 1][1], (n - 1) \div Len(ph)),
           ph[((n - 1) % Len(ph)) + 1][2] >> ]

\* C15: rewriting is order-independent.  The binding-major pass of
\* replacePlaceholdersInContent and the style-major order of the same
\* rules yield the same string, for every text and all values.
C15_OrderIndependent ==
    pc = "content" => result = replaceNameChain(text, StyleMajorCalls(placeholders), 1)

\* C16: rewriting is idempotent.  A second pass over the output of a pass
\* returns that output unchanged.
C16_Idempotent ==
    pc = "content" => replacePlaceholdersInContent(result, placeholders) = result

\* What the README says a placeholder bound to login_user renders as, in
\* the style st.
ReadmeFormat(st) ==
    CASE st = 1 -> << "login", " ", "user" >>
      [] st = 2 -> << "LOGIN", " ", "USER" >>
      [] st = 3 -> << "login", "_", "user" >>
      [] st = 4 -> << "Login", "User" >>
      [] st = 5 -> << "login", "User" >>

\* C17: the format variations of the README.  A styled token replaced by
\* replaceName with the value login_user becomes login_user (snakeCase),
\* loginUser (camelCase), LoginUser (pascalCase), "login user" (lowerCase)
\* and "LOGIN USER" (upperCase).
C17_ReadmeFormatVariations ==
    ( /\ pc = "replaceName"
      /\ loc.key = package_name /\ loc.style \in 1..5
      /\ loc.replaceFor = << "login", "_", "user" >>
      /\ text = loc.searchTerm )
        => result = ReadmeFormat(loc.style)

\* C18: malformed tokens are left as literal text.  A text that is an
\* unterminated "{{name" or a nested sequence comes out of a pass as it
\* went in.
C18_MalformedLeftLiteral ==
    ( pc \in { "path", "content" } /\ text \in Malformed ) => result = text


(***************************************************************************)
(* createInitials without a template folder.                               *)
(***************************************************************************)

\* createInitials found no template folder and asked whether to download.
Prompted ==
    \/ pc = "prompt"
    \/ \E n \in 1..Len(msgs) :
          msgs[n] \in { << "error", "Cannot continue without templates!" >>,
                        << "error", "Error downloading templates" >>,
                        << "error", "gh-retrieve module not found" >>,
                        << "info", "Templates downloaded successfully!" >>,
                        << "info", "Templates downloaded successfully! Please run the command again." >> }

\* p is the directory d or lies below it.
AtOrBelow(p, d) == p = d \/ Below(p, d)

\* C19: when createInitials finds no template folder it writes no
\* materialized file, whatever the answer to the download prompt and the
\* outcome of the download: nothing is written, and nothing exists at or
\* below <root>/lib and <root>/test.
C19_NoWriteWithoutTemplates ==
    Prompted
        => /\ written = << >>
           /\ \A p \in DOMAIN fs :
                 /\ ~AtOrBelow(p, rootFolder \o << "/", "lib" >>)
                 /\ ~AtOrBelow(p, rootFolder \o << "/", "test" >>)

\* The download was accepted and succeeded, and the command is over.
C19_Witness ==
    /\ Prompted
    /\ pc = "done"
    /\ existsSync(TemplateBaseFolder(rootFolder)
                      \o << "/", "core", "/", "foo", ".", "template" >>)


(***************************************************************************)
(* The pubspec commands: addCleanArchDependencies,                         *)
(* previewCleanArchDependencies and checkCleanArchDependencies.            *)
(*                                                                         *)
(* pubspec.yaml is held as the set of its lines, a line being              *)
(* << section, key, scalar >> with section "" for a top-level line; the    *)
(* order of the lines is not modelled.  A JavaScript object is the         *)
(* function from its keys to their values.                                 *)
(***************************************************************************)

\* The package lists of the three commands.
productionPackages ==
    << "flutter_bloc", "bloc", "get_it", "dio", "shared_preferences",
       "flutter_secure_storage", "equatable" >>
devPackages == << "mocktail", "bloc_test" >>
checkPackages == productionPackages \o devPackages

batchSize == 3

\* The per-package fallback table of getLatestVersions.
fallbackVersions ==
    [ p \in { checkPackages[n] : n \in 1..Len(checkPackages) } |->
        CASE p = "flutter_bloc" -> "^9.1.1"
          [] p = "bloc" -> "^9.0.0"
          [] p = "get_it" -> "^8.2.0"
          [] p = "dio" -> "^5.9.0"
          [] p = "shared_preferences" -> "^2.5.3"
          [] p = "flutter_secure_storage" -> "^9.2.4"
          [] p = "equatable" -> "^2.0.7"
          [] p = "mocktail" -> "^1.0.4"
          [] p = "bloc_test" -> "^10.0.0" ]

\* response.data.latest.version of a lookup that succeeds.
latestVersion(packageName) == "11.0.0"

\* What one lookup leaves in versions[packageName].
VersionFor(packageName) ==
    IF packageName \in pubDev
    THEN IF packageName \in DOMAIN fallbackVersions THEN fallbackVersions[packageName]
         ELSE "^1.0.0"
    ELSE "^" \o latestVersion(packageName)

\* The value of devDependencies['flutter_test'].
sdkFlutter == "{sdk: flutter}"

\* yaml.load of a scalar: the empty scalar, "~" and "null" are null.
null == "null"
LoadScalar(scalar) == IF scalar \in { "", "~", "null" } THEN null ELSE scalar

\* yaml.load throws on a mapping that has a key twice.
LoadThrows(content) ==
    \E l1 \in content, l2 \in content : l1[1] = l2[1] /\ l1[2] = l2[2] /\ l1[3] # l2[3]

\* The mapping below a top-level key of the document.
SectionOf(content, section) ==
    [ key \in { l[2] : l \in { m \in content : m[1] = section } } |->
        LoadScalar((CHOOSE l \in content : l[1] = section /\ l[2] = key)[3]) ]

\* yaml.load(pubspecContent): undefined for the empty document.
Load(content) ==
    [ defined |-> content # { },
      top |-> { l \in content : l[1] = "" },
      dependencies |-> SectionOf(content, "dependencies"),
      dev_dependencies |-> SectionOf(content, "dev_dependencies") ]

\* yaml.dump(pubspecData).
Dump(data) ==
    data.top
      \cup { << "dependencies", key, data.dependencies[key] >> : key \in DOMAIN data.dependencies }
      \cup { << "dev_dependencies", key, data.dev_dependencies[key] >> :
                key \in DOMAIN data.dev_dependencies }

\* object[key]: undefined for a key the object has not; null and undefined
\* are the falsy values a pubspec mapping can hold.
Get(object, key) == IF key \in DOMAIN object THEN object[key] ELSE "undefined"
Falsy(value) == value \in { "undefined", null }

\* object with object[key] = value.
Put(object, key, value) ==
    [ k \in DOMAIN object \cup { key } |-> IF k = key THEN value ELSE object[k] ]

pubspecPath == getRootFolder \o << "/", "pubspec", ".", "yaml" >>

\* The keys the two forEach loops of addCleanArchDependencies add.
MissingFrom(section, dependencies) ==
    { dep \in DOMAIN dependencies : Falsy(Get(section, dep)) }

\* The section after the forEach loop over the keys of dependencies.
Merged(section, dependencies) ==
    [ k \in DOMAIN section \cup DOMAIN dependencies |->
        IF k \in MissingFrom(section, dependencies) THEN dependencies[k] ELSE section[k] ]

\* typeof value === 'string': of the values here only the sdk mapping is not.
IsString(value) == value # sdkFlutter

\* The status report of checkCleanArchDependencies.
currentVersion(pubspecData, dep) ==
    IF ~Falsy(Get(pubspecData.dependencies, dep)) THEN Get(pubspecData.dependencies, dep)
    ELSE Get(pubspecData.dev_dependencies, dep)

statusReport(pubspecData, latestVersions) ==
    LET present == { dep \in DOMAIN latestVersions : ~Falsy(currentVersion(pubspecData, dep)) }
        updatable == { dep \in present :
                         /\ currentVersion(pubspecData, dep) # latestVersions[dep]
                         /\ IsString(currentVersion(pubspecData, dep)) }
        flutterTest == ~Falsy(Get(pubspecData.dev_dependencies, "flutter_test"))
    IN  [ present |-> present \cup ( IF flutterTest THEN { "flutter_test" } ELSE { } ),
          missing |-> ( DOMAIN latestVersions \ present )
                         \cup ( IF flutterTest THEN { } ELSE { "flutter_test" } ),
          updatable |-> updatable ]

presentCount(report) == Cardinality(report.present)
missingCount(report) == Cardinality(report.missing)
updatableCount(report) == Cardinality(report.updatable)

buttonText(report) ==
    IF updatableCount(report) > 0
    THEN IF missingCount(report) > 0 THEN "Add Missing & Update All" ELSE "Update All Dependencies"
    ELSE "Add Missing Dependencies"

\* The local variables of the pubspec commands.
DependenciesLocals ==
    [ command |-> "none", caller |-> "none", stage |-> "none", outcome |-> "none",
      pubspecData |-> Load({ }), packageNames |-> << >>, i |-> 0, inflight |-> { },
      versions |-> << >>, productionDependencies |-> << >>, devDependencies |-> << >>,
      addedDeps |-> 0, addedDevDeps |-> 0 ]

\* getLatestVersions(packageNames) is entered: the first message is shown.
EnterGetLatestVersions(l, packageNames, stage) ==
    [ l EXCEPT !.packageNames = packageNames, !.stage = stage, !.i = 0,
               !.inflight = { }, !.versions = << >> ]

fetchingMessage == << "info", "Fetching latest package versions from pub.dev..." >>

\* What an error thrown by addCleanArchDependencies brings about: its own
\* catch reports and rethrows, the catch of the calling command reports.
AddThrows(caller) ==
    << << "error", "Error adding dependencies" >> >>
      \o ( IF caller = "check" THEN << << "error", "Error checking dependencies" >> >>
           ELSE IF caller = "preview"
                THEN << << "error", "Error fetching versions for preview" >> >>
           ELSE << >> )

\* addCleanArchDependencies up to its first await.
EnterAdd(caller) ==
    IF ReadThrows(pubspecPath) \/ LoadThrows(readFileSync(pubspecPath))
    THEN /\ msgs' = Append(msgs, << "error", "Could not read pubspec.yaml file" >>)
         /\ loc' = [ loc EXCEPT !.command = "add", !.caller = caller, !.outcome = "unreadable" ]
         /\ pc' = "done"
         /\ UNCHANGED << inputVars, fs, written, text, placeholders, result >>
    ELSE /\ loc' = [ EnterGetLatestVersions(DependenciesLocals, productionPackages, "production")
                       EXCEPT !.command = "add", !.caller = caller,
                              !.pubspecData = Load(readFileSync(pubspecPath)) ]
         /\ msgs' = Append(msgs, fetchingMessage)
         /\ pc' = "getLatestVersions"
         /\ UNCHANGED << inputVars, fs, written, text, placeholders, result >>

\* The command "Add Clean Architecture dependencies" is invoked.
AddCleanArchDependencies ==
    /\ pc = "idle"
    /\ EnterAdd("command")

\* packageNames.slice(i, i + batchSize), i counting from 0.
Batch(packageNames, i) ==
    { packageNames[n] : n \in { m \in 1..Len(packageNames) : i < m /\ m <= i + batchSize } }

\* A loop that starts the next batch without awaiting the one before.
StartBatchNoAwait ==
    /\ pc = "getLatestVersions"
    /\ loc.i < Len(loc.packageNames)
    /\ loc' = [ loc EXCEPT !.inflight =
                              @ \cup { loc.packageNames[n] :
                                         n \in { m \in 1..Len(loc.packageNames) :
                                                   loc.i < m /\ m <= loc.i + 3 } },
                           !.i = loc.i + 3 ]
    /\ UNCHANGED << inputVars, diskVars, text, placeholders, result, pc >>

\* getLatestVersions: a turn of the loop takes the batch at i and starts
\* one lookup for each of its names, then awaits Promise.all of them.
StartBatch ==
    /\ pc = "getLatestVersions"
    /\ loc.inflight = { }
    /\ loc.i < Len(loc.packageNames)
    /\ loc' = [ loc EXCEPT !.inflight = Batch(loc.packageNames, loc.i) ]
    /\ UNCHANGED << inputVars, diskVars, text, placeholders, result, pc >>

\* One lookup settles: by the version pub.dev answers, or by the fallback
\* of the package in the catch of the lookup.  With the last lookup of the
\* batch Promise.all is over, and after the delay the loop goes on at
\* i + batchSize.
SettleLookup ==
    /\ pc = "getLatestVersions"
    /\ \E packageName \in loc.inflight :
          loc' = [ loc EXCEPT !.inflight = @ \ { packageName },
                              !.versions = Put(@, packageName, VersionFor(packageName)),
                              !.i = IF loc.inflight = { packageName } THEN @ + batchSize ELSE @ ]
    /\ UNCHANGED << inputVars, diskVars, text, placeholders, result, pc >>

\* The loop of getLatestVersions is over.
LoopOver == pc = "getLatestVersions" /\ loc.inflight = { } /\ loc.i >= Len(loc.packageNames)

retrievedMessage == << "info", "Retrieved versions for", Cardinality(DOMAIN loc.versions), "packages" >>

\* getLatestVersions returns the production versions to
\* addCleanArchDependencies, which asks for the dev versions.
ReturnProductionDependencies ==
    /\ LoopOver
    /\ loc.stage = "production"
    /\ result' = loc.versions
    /\ loc' = [ EnterGetLatestVersions(loc, devPackages, "dev")
                  EXCEPT !.productionDependencies = loc.versions ]
    /\ msgs' = msgs \o << retrievedMessage, fetchingMessage >>
    /\ UNCHANGED << inputVars, fs, written, text, placeholders, pc >>

\* getLatestVersions returns the dev versions: steps 4 to 6 of
\* addCleanArchDependencies, up to the question about flutter pub get.
ReturnDevDependencies ==
    /\ LoopOver
    /\ loc.stage = "dev"
    /\ result' = loc.versions
    /\ LET devDependencies == Put(loc.versions, "flutter_test", sdkFlutter)
           pubspecData == loc.pubspecData
           addedDeps == Cardinality(MissingFrom(pubspecData.dependencies,
                                                loc.productionDependencies))
           addedDevDeps == Cardinality(MissingFrom(pubspecData.dev_dependencies,
                                                   devDependencies))
           updated == [ pubspecData EXCEPT
                          !.dependencies = Merged(@, loc.productionDependencies),
                          !.dev_dependencies = Merged(@, devDependencies) ]
           l == [ loc EXCEPT !.devDependencies = devDependencies, !.stage = "merge",
                             !.addedDeps = addedDeps, !.addedDevDeps = addedDevDeps ]
       IN  IF ~pubspecData.defined
           THEN /\ loc' = [ loc EXCEPT !.devDependencies = devDependencies, !.stage = "merge",
                                       !.outcome = "threw" ]
                /\ msgs' = Append(msgs, retrievedMessage) \o AddThrows(loc.caller)
                /\ pc' = "done"
                /\ UNCHANGED << fs, written >>
           ELSE IF addedDeps > 0 \/ addedDevDeps > 0
           THEN IF WriteBlocked(fs, pubspecPath)
                THEN /\ loc' = [ l EXCEPT !.outcome = "threw" ]
                     /\ msgs' = Append(msgs, retrievedMessage) \o AddThrows(loc.caller)
                     /\ pc' = "done"
                     /\ UNCHANGED << fs, written >>
                ELSE /\ fs' = writeFile(fs, pubspecPath, Dump(updated))
                     /\ written' = Append(written, << pubspecPath, Dump(updated),
                                                      "addCleanArchDependencies" >>)
                     /\ loc' = [ l EXCEPT !.outcome = "written" ]
                     /\ msgs' = msgs \o << retrievedMessage,
                                           << "info", "Successfully added",
                                              addedDeps + addedDevDeps, addedDeps, addedDevDeps >>,
                                           << "info", "Dependencies added successfully! Do you want to run 'flutter pub get' now?" >> >>
                     /\ pc' = "runPubGet"
           ELSE /\ loc' = [ l EXCEPT !.outcome = "nothing" ]
                /\ msgs' = msgs \o << retrievedMessage,
                                      << "info", "All Clean Architecture dependencies are already present in pubspec.yaml" >> >>
                /\ pc' = "done"
                /\ UNCHANGED << fs, written >>
    /\ UNCHANGED << inputVars, text, placeholders >>

\* The answer to the question about flutter pub get; runFlutterPubGet
\* announces the run and reports how it ended.
AnswerRunPubGet ==
    /\ pc = "runPubGet"
    /\ \E runPubGet \in { "Yes", "No" }, failed \in BOOLEAN :
          msgs' = IF runPubGet = "Yes"
                  THEN msgs \o << << "info", "Running 'flutter pub get'..." >>,
                                  IF failed THEN << "error", "Error running 'flutter pub get'" >>
                                  ELSE << "info", "Successfully ran 'flutter pub get'!" >> >>
                  ELSE msgs
    /\ pc' = "done"
    /\ UNCHANGED << inputVars, fs, written, text, placeholders, result, loc >>

\* The command "Preview Clean Architecture dependencies" is invoked.
PreviewCleanArchDependencies ==
    /\ pc = "idle"
    /\ loc' = [ EnterGetLatestVersions(DependenciesLocals, productionPackages, "prodDeps")
                  EXCEPT !.command = "preview", !.caller = "command" ]
    /\ msgs' = msgs \o << << "info", "Fetching latest versions for preview..." >>, fetchingMessage >>
    /\ pc' = "getLatestVersions"
    /\ UNCHANGED << inputVars, fs, written, text, placeholders, result >>

\* getLatestVersions returns prodDeps to the preview.
ReturnProdDeps ==
    /\ LoopOver
    /\ loc.stage = "prodDeps"
    /\ result' = loc.versions
    /\ loc' = [ EnterGetLatestVersions(loc, devPackages, "devDeps")
                  EXCEPT !.productionDependencies = loc.versions ]
    /\ msgs' = msgs \o << retrievedMessage, fetchingMessage >>
    /\ UNCHANGED << inputVars, fs, written, text, placeholders, pc >>

\* getLatestVersions returns devDeps to the preview, which shows the list.
ReturnDevDeps ==
    /\ LoopOver
    /\ loc.stage = "devDeps"
    /\ result' = loc.versions
    /\ loc' = [ loc EXCEPT !.devDependencies = loc.versions, !.stage = "proceed" ]
    /\ msgs' = msgs \o << retrievedMessage,
                          << "modal", "CLEAN ARCHITECTURE DEPENDENCIES (LATEST VERSIONS)",
                             "Only missing dependencies will be added.",
                             "Existing dependencies will be preserved." >> >>
    /\ pc' = "proceed"
    /\ UNCHANGED << inputVars, fs, written, text, placeholders >>

\* The answer to the preview.
AnswerPreview ==
    /\ pc = "proceed"
    /\ \/ EnterAdd("preview")
       \/ /\ pc' = "done"
          /\ loc' = [ loc EXCEPT !.outcome = "cancelled" ]
          /\ UNCHANGED << inputVars, diskVars, text, placeholders, result >>

\* The command "Check Clean Architecture dependencies" is invoked.
CheckCleanArchDependencies ==
    /\ pc = "idle"
    /\ IF ReadThrows(pubspecPath) \/ LoadThrows(readFileSync(pubspecPath))
       THEN /\ msgs' = Append(msgs, << "error", "Error checking dependencies" >>)
            /\ loc' = [ DependenciesLocals EXCEPT !.command = "check", !.caller = "command",
                                                  !.outcome = "threw" ]
            /\ pc' = "done"
       ELSE /\ loc' = [ EnterGetLatestVersions(DependenciesLocals, checkPackages, "latestVersions")
                          EXCEPT !.command = "check", !.caller = "command",
                                 !.pubspecData = Load(readFileSync(pubspecPath)) ]
            /\ msgs' = msgs \o << << "info", "Checking dependencies and fetching latest versions..." >>,
                                  fetchingMessage >>
            /\ pc' = "getLatestVersions"
    /\ UNCHANGED << inputVars, fs, written, text, placeholders, result >>

\* getLatestVersions returns latestVersions to the check, which builds the
\* status report and shows it.
ReturnLatestVersions ==
    /\ LoopOver
    /\ loc.stage = "latestVersions"
    /\ result' = loc.versions
    /\ LET report == statusReport(loc.pubspecData, loc.versions)
       IN  IF ~loc.pubspecData.defined
           THEN /\ msgs' = msgs \o << retrievedMessage, << "error", "Error checking dependencies" >> >>
                /\ loc' = [ loc EXCEPT !.stage = "report", !.outcome = "threw" ]
                /\ pc' = "done"
           ELSE IF missingCount(report) > 0 \/ updatableCount(report) > 0
           THEN /\ msgs' = msgs \o << retrievedMessage,
                                      << "modal", "CLEAN ARCHITECTURE DEPENDENCIES STATUS", report,
                                         buttonText(report), "Close" >> >>
                /\ loc' = [ loc EXCEPT !.stage = "report" ]
                /\ pc' = "action"
           ELSE /\ msgs' = msgs \o << retrievedMessage,
                                      << "info", "CLEAN ARCHITECTURE DEPENDENCIES STATUS", report >> >>
                /\ loc' = [ loc EXCEPT !.stage = "report", !.outcome = "reported" ]
                /\ pc' = "done"
    /\ UNCHANGED << inputVars, fs, written, text, placeholders >>

\* The answer to the status report.
AnswerCheck ==
    /\ pc = "action"
    /\ \/ EnterAdd("check")
       \/ /\ pc' = "done"
          /\ loc' = [ loc EXCEPT !.outcome = "closed" ]
          /\ UNCHANGED << inputVars, diskVars, text, placeholders, result >>

(***************************************************************************)
(* Specification SpecDependencies: one of the pubspec commands runs in a   *)
(* project whose pubspec.yaml the developer has edited.                    *)
(***************************************************************************)

MaxLines == 2

\* A pubspec.yaml without dependencies, and one that has every listed
\* package in its section.
PubspecBare == { << "", "name", "app" >> }
PubspecComplete ==
    PubspecBare
      \cup { << "dependencies", productionPackages[n], fallbackVersions[productionPackages[n]] >> :
                n \in 1..Len(productionPackages) }
      \cup { << "dev_dependencies", devPackages[n], fallbackVersions[devPackages[n]] >> :
                n \in 1..Len(devPackages) }
      \cup { << "dev_dependencies", "flutter_test", sdkFlutter >> }

\* The lines the developer adds, and the lines the developer deletes.
LineChoices ==
    { << "dependencies", "dio", "" >>,
      << "dependencies", "dio", "^5.3.2" >>,
      << "dependencies", "mocktail", "^1.0.4" >>,
      << "dependencies", "http", "^1.2.0" >> }
DeletedLines ==
    { << "dev_dependencies", "mocktail", "^1.0.4" >>,
      << "dependencies", "dio", "^5.9.0" >> }

\* The states of pub.dev: every lookup answers, two fail, all fail.
Outages == { { }, { "dio", "mocktail" }, { checkPackages[n] : n \in 1..Len(checkPackages) } }

InitDependencies ==
    /\ version = "none"
    /\ rootFolder = << "/", "work", "/", "app" >>
    /\ clickedFolder = rootFolder
    /\ usecaseName = << >>
    /\ pubDev \in Outages
    /\ \E project \in { mkdir(EmptyFs, << "/", "work", "/", "app" >>) } :
          fs \in { project }
                \cup { AddNode(project, << "/", "work", "/", "app", "/", "pubspec", ".", "yaml" >>,
                               FileNode(content)) :
                         content \in { { }, PubspecBare, PubspecComplete } }
    /\ msgs = << >>
    /\ written = << >>
    /\ text = << >>
    /\ placeholders = << >>
    /\ result = << >>
    /\ loc = DependenciesLocals
    /\ pc = "idle"

\* The developer adds a line to pubspec.yaml.
WriteLine ==
    /\ pc = "idle"
    /\ existsSync(pubspecPath)
    /\ \E line \in LineChoices \ readFileSync(pubspecPath) :
          /\ Cardinality(readFileSync(pubspecPath) \cap LineChoices) < MaxLines
          /\ fs' = writeFile(fs, pubspecPath, readFileSync(pubspecPath) \cup { line })
    /\ UNCHANGED << inputVars, msgs, written, text, placeholders, result, loc, pc >>

\* The developer deletes a line of pubspec.yaml.
DeleteLine ==
    /\ pc = "idle"
    /\ existsSync(pubspecPath)
    /\ \E line \in DeletedLines \cap readFileSync(pubspecPath) :
          fs' = writeFile(fs, pubspecPath, readFileSync(pubspecPath) \ { line })
    /\ UNCHANGED << inputVars, msgs, written, text, placeholders, result, loc, pc >>

NextDependencies ==
    \/ WriteLine
    \/ DeleteLine
    \/ AddCleanArchDependencies
    \/ PreviewCleanArchDependencies
    \/ CheckCleanArchDependencies
    \/ StartBatch
    \/ SettleLookup
    \/ ReturnProductionDependencies
    \/ ReturnDevDependencies
    \/ AnswerRunPubGet
    \/ ReturnProdDeps
    \/ ReturnDevDeps
    \/ AnswerPreview
    \/ ReturnLatestVersions
    \/ AnswerCheck

SpecDependencies == InitDependencies /\ [][NextDependencies]_vars


(***************************************************************************)
(* Properties of the pubspec commands.                                     *)
(***************************************************************************)

\* The packages addCleanArchDependencies lists for a section.
ListedIn(section) ==
    IF section = "dependencies" THEN { productionPackages[n] : n \in 1..Len(productionPackages) }
    ELSE { devPackages[n] : n \in 1..Len(devPackages) } \cup { "flutter_test" }

\* addCleanArchDependencies has returned normally; loc.pubspecData is the
\* document as it was loaded.
AddReturned ==
    /\ pc \in { "runPubGet", "done" }
    /\ loc.command = "add"
    /\ loc.outcome \in { "written", "nothing" }

\* The entries of the document on disk that the loaded document had not.
EntriesAdded ==
    { << section, key >> \in { "dependencies", "dev_dependencies" }
                               \X ( ListedIn("dependencies") \cup ListedIn("dev_dependencies") ) :
        /\ key \in DOMAIN Load(readFileSync(pubspecPath))[section]
        /\ key \notin DOMAIN loc.pubspecData[section] }

\* C21: addCleanArchDependencies adds only what is missing.  When it has
\* returned, every entry that dependencies or dev_dependencies had before
\* the call is there with the value it had, every listed package that its
\* section lacked is in that section, and pubspec.yaml was written only if
\* at least one entry was added.
C21_OnlyMissingAdded ==
    AddReturned =>
        LET after == Load(readFileSync(pubspecPath))
        IN  /\ \A section \in { "dependencies", "dev_dependencies" } :
                 /\ \A key \in DOMAIN loc.pubspecData[section] :
                       /\ key \in DOMAIN after[section]
                       /\ after[section][key] = loc.pubspecData[section][key]
                 /\ \A key \in ListedIn(section) : key \in DOMAIN after[section]
            /\ written # << >> => EntriesAdded # { }

\* C29: the check and the add command agree on what is missing.  When
\* addCleanArchDependencies has returned, a listed package that the status
\* report of checkCleanArchDependencies on the same document counts as
\* present was not added, one it counts as missing was added, and with no
\* package missing in the report nothing was added and pubspec.yaml was
\* not written.
C29_CheckAndAddAgree ==
    AddReturned =>
        LET report == statusReport(loc.pubspecData,
                                   [ dep \in ListedIn("dependencies")
                                               \cup ( ListedIn("dev_dependencies") \ { "flutter_test" } )
                                       |-> VersionFor(dep) ])
            added == MissingFrom(loc.pubspecData.dependencies, loc.productionDependencies)
                        \cup MissingFrom(loc.pubspecData.dev_dependencies, loc.devDependencies)
        IN  /\ \A dep \in report.present : dep \notin added
            /\ \A dep \in report.missing : dep \in added
            /\ missingCount(report) = 0 => ( added = { } /\ written = << >> )


(***************************************************************************)
(* Specification SpecFiltered: createInitials in the revision that filters *)
(* the test templates (unnamed/part_000), on a template folder that holds  *)
(* test templates in allowed folders, in other folders and directly under  *)
(* test/.                                                                  *)
(***************************************************************************)

\* The user answers 'Yes' in the filtering revision: getTemplatesFile makes
\* <root>/.my_templates and downloads into it; the module is missing
\* ("noModule"), the download fails ("fails") or completes ("ok").
\* createInitials then shows its message and returns.
AnswerYesGetTemplatesFile ==
    /\ pc = "prompt"
    /\ version = Filtered
    /\ LET defaultTemplateFolder == getRootFolder \o << "/", ".", "my", "_", "templates" >>
       IN  IF MkdirBlocked(fs, defaultTemplateFolder)
           THEN /\ pc' = "rejected"
                /\ UNCHANGED << fs, msgs >>
           ELSE \E outcome \in { "noModule", "fails", "ok" } :
                   /\ fs' = IF outcome = "ok"
                            THEN writeFile(
                                   mkdir(fs, TemplateBaseFolder(getRootFolder) \o << "/", "core" >>),
                                   TemplateBaseFolder(getRootFolder)
                                       \o << "/", "core", "/", "foo", ".", "template" >>,
                                   << "foo" >>)
                            ELSE mkdir(fs, defaultTemplateFolder)
                   /\ msgs' = msgs \o << IF outcome = "ok"
                                         THEN << "info", "Templates downloaded successfully!" >>
                                         ELSE << "error", "Error downloading templates" >>,
                                         << "info", "Templates downloaded successfully! Please run the command again." >> >>
                   /\ pc' = "done"
    /\ UNCHANGED << inputVars, written, text, placeholders, result, loc >>

\* Template files: << folder, path below the folder, contents >>.
FilteredChoices ==
    { << << "config" >>, << "app", "_", "config", ".", "template" >>, << "foo" >> >>,
      << << "core" >>, << "api", "/", "api", ".", "template" >>, << "foo" >> >>,
      << << "test" >>, << "core", "/", "api", "/", "api", "_", "test", ".", "template" >>, << "foo" >> >>,
      << << "test" >>, << "fixtures", "/", "reader", ".", "template" >>, << "bar" >> >>,
      << << "test" >>, << "usecase", "/", "foo", ".", "template" >>, << "bar" >> >>,
      << << "test" >>, << "helper", ".", "template" >>, << "bar" >> >> }

InitFiltered ==
    /\ version = Filtered
    /\ rootFolder = << "/", "work", "/", "app" >>
    /\ clickedFolder = rootFolder \o << "/", "lib" >>
    /\ usecaseName = << >>
    /\ pubDev = { }
    /\ fs = EmptyFs
    /\ msgs = << >>
    /\ written = << >>
    /\ text = << >>
    /\ placeholders = << >>
    /\ result = << >>
    /\ loc = << >>
    /\ pc = "start"

\* Somebody puts a template file into the template folder.
AddFilteredTemplate ==
    /\ pc = "start"
    /\ Cardinality(FilesOf(fs)) < MaxTemplates
    /\ \E t \in FilteredChoices :
          LET path == TemplateBaseFolder(rootFolder) \o << "/" >> \o t[1] \o << "/" >> \o t[2]
          IN  /\ ~existsSync(path)
              /\ fs' = writeFile(mkdir(fs, dirname(path)), path, t[3])
    /\ UNCHANGED << inputVars, msgs, written, text, placeholders, result, loc, pc >>

NextFiltered ==
    \/ AddFilteredTemplate
    \/ CreateInitials
    \/ AnswerNo
    \/ AnswerYesGetTemplatesFile
    \/ NextFolder
    \/ CopyTemplate
    \/ CopyReturn

SpecFiltered == InitFiltered /\ [][NextFiltered]_vars

\* The template files that the initial setup is to materialize.
InitialSetupTemplates ==
    TemplateFilesBelow(InitialTemplateFolder(<< "config" >>))
      \cup TemplateFilesBelow(InitialTemplateFolder(<< "core" >>))
      \cup TemplateFilesBelow(InitialTemplateFolder(<< "test" >>) \o << "/", "core" >>)
      \cup TemplateFilesBelow(InitialTemplateFolder(<< "test" >>) \o << "/", "fixtures" >>)

\* createInitials has gone through its three folders.
SetupOver == pc = "done" /\ loc # << >> /\ loc.i > Len(initialFolders)

\* C22: the initial setup filters the test templates.  Nothing is ever
\* written from a template that lies directly under test/ or under a
\* folder of test/ other than core and fixtures; when the setup is over,
\* every template of config, of core and, at any depth, of test/core and
\* test/fixtures has been written (or an error was shown for it).
C22_TestTemplatesFiltered ==
    /\ \A n \in 1..Len(written) : written[n][3] \in InitialSetupTemplates
    /\ SetupOver =>
          \A t \in InitialSetupTemplates :
              \/ \E n \in 1..Len(written) : written[n][3] = t
              \/ \E m \in 1..Len(msgs) :
                    msgs[m][1] = "error" /\ Len(msgs[m]) = 3 /\ msgs[m][3] = t

\* C22 happens: the setup is over, a template deep in test/core was
\* written, and a template of test/usecase is on disk, not written.
C22_Witness ==
    /\ SetupOver
    /\ \E n \in 1..Len(written) :
          Below(written[n][3], InitialTemplateFolder(<< "test" >>) \o << "/", "core", "/", "api" >>)
    /\ \E t \in TemplateFilesBelow(InitialTemplateFolder(<< "test" >>) \o << "/", "usecase" >>) :
          \A n \in 1..Len(written) : written[n][3] # t


(***************************************************************************)
(* Specification SpecFeature: getFeatureNameFromPath is called on a        *)
(* clicked folder of one of the documented forms, below any ancestors.     *)
(***************************************************************************)

\* The most directories above lib, test or src in a clicked folder.
MaxAncestors == 2

\* The names of the directories above, and the names of the features.
AncestorNames == { << "work" >>, << "app" >>, << "src" >> }
FeatureNames == { << "auth" >>, << "products" >> }

\* "/a/b" for the directory names << a, b >>.
RECURSIVE JoinPath(_)
JoinPath(names) ==
    IF names = << >> THEN << >> ELSE << "/" >> \o names[1] \o JoinPath(Tail(names))

\* The documented forms: lib/src/FEATURE, test/src/FEATURE, src/FEATURE/domain.
DocumentedForms(feature) ==
    { << << "lib" >>, << "src" >>, feature >>,
      << << "test" >>, << "src" >>, feature >>,
      << << "src" >>, feature, << "domain" >> >> }

\* What may follow the form in the clicked folder.
FormTails == { << >>, << << "domain" >>, << "usecases" >> >> }

FeaturePaths ==
    { JoinPath(ancestors \o form \o tail) :
        ancestors \in UNION { [ 1..n -> AncestorNames ] : n \in 0..MaxAncestors },
        form \in UNION { DocumentedForms(feature) : feature \in FeatureNames },
        tail \in FormTails }

InitFeature ==
    /\ version = CurrentUsecase
    /\ rootFolder = << >>
    /\ clickedFolder \in FeaturePaths
    /\ usecaseName = << >>
    /\ pubDev = { }
    /\ fs = EmptyFs
    /\ msgs = << >>
    /\ written = << >>
    /\ text = << >>
    /\ placeholders = << >>
    /\ result = << >>
    /\ loc = << >>
    /\ pc = "start"

\* createUsecase, step 3: featureName = getFeatureNameFromPath(clickedFolder).
CallGetFeatureNameFromPath ==
    /\ pc = "start"
    /\ result' = getFeatureNameFromPath(clickedFolder)
    /\ pc' = "returned"
    /\ UNCHANGED << inputVars, diskVars, text, placeholders, loc >>

NextFeature == CallGetFeatureNameFromPath

SpecFeature == InitFeature /\ [][NextFeature]_vars

\* The folder has the directories of form, one after the other.
HasForm(folder, form) == includes(folder \o << "/" >>, JoinPath(form) \o << "/" >>)

\* C23: for a clicked folder .../lib/src/FEATURE/..., .../test/src/FEATURE/...
\* or .../src/FEATURE/domain/... getFeatureNameFromPath returns FEATURE,
\* whatever the directories above are called.
C23_FeatureNameOfDocumentedForms ==
    pc = "returned" =>
        \A feature \in FeatureNames :
            ( \E form \in DocumentedForms(feature) : HasForm(clickedFolder, form) )
                => result = feature


(***************************************************************************)
(* Specification SpecWrite: createInitials with writeFileExtPromise taken  *)
(* callback by callback.  result holds the promises of the                 *)
(* writeFileExtPromise calls of the run, in the order of the calls; of     *)
(* each, how far fs.mkdir and fs.writeFile have come, whether it is        *)
(* pending, resolved or rejected, and how often resolve or reject was      *)
(* called.                                                                 *)
(***************************************************************************)

\* The promise of writeFileExtPromise(path, contents) at its return:
\* fs.mkdir has been issued.
NewPromise(path, contents, templateFile) ==
    [ path |-> path, contents |-> contents, templateFile |-> templateFile,
      mkdir |-> "pending", writeFile |-> "none", state |-> "pending", settled |-> 0 ]

\* resolve() or reject(err) called on a promise: only the first call settles it.
Settle(promise, state) ==
    [ promise EXCEPT !.state = IF @ = "pending" THEN state ELSE @, !.settled = @ + 1 ]

\* A loop that goes on to the next template file without awaiting the write.
CopyWriteNoAwait ==
    /\ pc = "copy"
    /\ loc.k <= Len(loc.templateFiles)
    /\ \E destinationPath \in { DestinationPath(loc.templateFiles[loc.k], loc) },
          templateContent \in { TemplateContent(loc.templateFiles[loc.k], loc) } :
          result' = Append(result, NewPromise(destinationPath, templateContent,
                                              loc.templateFiles[loc.k]))
    /\ loc' = [ loc EXCEPT !.k = @ + 1 ]
    /\ UNCHANGED << inputVars, diskVars, text, placeholders, pc >>

\* One turn of the loop over templateFiles up to the await: reading the
\* template throws and the catch reports it, or writeFileExtPromise is
\* called and the loop waits for its promise.
CopyWrite ==
    /\ pc = "copy"
    /\ loc.k <= Len(loc.templateFiles)
    /\ \E readFails \in BOOLEAN :
          IF readFails
          THEN /\ msgs' = Append(msgs, << "error", "Error processing template",
                                          loc.templateFiles[loc.k] >>)
               /\ loc' = [ loc EXCEPT !.k = @ + 1 ]
               /\ UNCHANGED << result, pc >>
          ELSE /\ \E destinationPath \in { DestinationPath(loc.templateFiles[loc.k], loc) },
                     templateContent \in { TemplateContent(loc.templateFiles[loc.k], loc) } :
                     result' = Append(result, NewPromise(destinationPath, templateContent,
                                                         loc.templateFiles[loc.k]))
               /\ pc' = "await"
               /\ UNCHANGED << msgs, loc >>
    /\ UNCHANGED << inputVars, fs, written, text, placeholders >>

\* The loop after the promise it waits for has settled: filesCreated++ or
\* the catch, then the next template file.
Resume(promise) ==
    /\ msgs' = IF promise.state = "rejected"
               THEN Append(msgs, << "error", "Error processing template", promise.templateFile >>)
               ELSE msgs
    /\ loc' = IF pc = "await"
              THEN [ loc EXCEPT !.k = @ + 1,
                                !.filesCreated = IF promise.state = "resolved" THEN @ + 1 ELSE @ ]
              ELSE loc
    /\ pc' = IF pc = "await" THEN "copy" ELSE pc

\* A callback of fs.mkdir that starts the write whether mkdir failed or not.
MkdirCallbackWritesAnyway ==
    /\ \E n \in 1..Len(result) :
          /\ result[n].mkdir = "pending"
          /\ \E err \in BOOLEAN :
                /\ ~err => ~MkdirBlocked(fs, dirname(result[n].path))
                /\ fs' = IF err THEN fs ELSE mkdir(fs, dirname(result[n].path))
                /\ result' = [ result EXCEPT ![n] =
                                 [ @ EXCEPT !.mkdir = IF err THEN "failed" ELSE "ok",
                                            !.writeFile = "pending" ] ]
    /\ UNCHANGED << inputVars, msgs, written, text, placeholders, loc, pc >>

\* The callback of fs.mkdir(dirname(path), { recursive: true }): with err
\* the promise is rejected, else fs.writeFile is issued.
MkdirCallback ==
    /\ \E n \in 1..Len(result) :
          /\ result[n].mkdir = "pending"
          /\ \E err \in BOOLEAN :
                /\ ~err => ~MkdirBlocked(fs, dirname(result[n].path))
                /\ IF err
                   THEN \E promise \in { Settle([ result[n] EXCEPT !.mkdir = "failed" ],
                                                "rejected") } :
                           /\ result' = [ result EXCEPT ![n] = promise ]
                           /\ Resume(promise)
                           /\ UNCHANGED fs
                   ELSE /\ fs' = mkdir(fs, dirname(result[n].path))
                        /\ result' = [ result EXCEPT ![n] =
                                         [ @ EXCEPT !.mkdir = "ok", !.writeFile = "pending" ] ]
                        /\ UNCHANGED << msgs, loc, pc >>
    /\ UNCHANGED << inputVars, written, text, placeholders >>

\* The callback of fs.writeFile(path, contents): with error the promise is
\* rejected, else it is resolved.
WriteFileCallback ==
    /\ \E n \in 1..Len(result) :
          /\ result[n].writeFile = "pending"
          /\ \E error \in BOOLEAN :
                /\ ~error => ~WriteBlocked(fs, result[n].path)
                /\ \E promise \in { Settle([ result[n] EXCEPT !.writeFile =
                                                IF error THEN "failed" ELSE "ok" ],
                                           IF error THEN "rejected" ELSE "resolved") } :
                      /\ result' = [ result EXCEPT ![n] = promise ]
                      /\ Resume(promise)
                /\ fs' = IF error THEN fs ELSE writeFile(fs, result[n].path, result[n].contents)
                /\ written' = IF error THEN written
                              ELSE Append(written, << result[n].path, result[n].contents,
                                                      result[n].templateFile >>)
    /\ UNCHANGED << inputVars, text, placeholders >>

\* Template files: << folder, path below the folder, contents >>.
WriteChoices ==
    { << << "config" >>, << "app", "_", "config", ".", "template" >>, << "foo" >> >>,
      << << "config" >>, << "api", ".", "template" >>, << "foo" >> >>,
      << << "config" >>, Token(package_name) \o dotTemplate, << "foo" >> >>,
      << << "config" >>, << "work", "/", "app" >> \o dotTemplate, << "bar" >> >>,
      << << "core" >>, << "api", "/", "api", ".", "template" >>, << "foo" >> >>,
      << << "core" >>, << "api", ".", "template" >>, << "bar" >> >>,
      << << "test" >>, << "core", "/", "api", "_", "test", ".", "template" >>, << "foo" >> >> }

InitWrite ==
    /\ version = Current
    /\ rootFolder = << "/", "work", "/", "app" >>
    /\ clickedFolder = rootFolder \o << "/", "lib" >>
    /\ usecaseName = << >>
    /\ pubDev = { }
    /\ fs = EmptyFs
    /\ msgs = << >>
    /\ written = << >>
    /\ text = << >>
    /\ placeholders = << >>
    /\ result = << >>
    /\ loc = << >>
    /\ pc = "start"

\* Somebody puts a template file into the template folder.
AddWriteTemplate ==
    /\ pc = "start"
    /\ Cardinality(FilesOf(fs)) < MaxTemplates
    /\ \E t \in WriteChoices :
          LET path == TemplateBaseFolder(rootFolder) \o << "/" >> \o t[1] \o << "/" >> \o t[2]
          IN  /\ ~existsSync(path)
              /\ fs' = writeFile(mkdir(fs, dirname(path)), path, t[3])
    /\ UNCHANGED << inputVars, msgs, written, text, placeholders, result, loc, pc >>

NextWrite ==
    \/ AddWriteTemplate
    \/ CreateInitials
    \/ AnswerNo
    \/ AnswerYes
    \/ NextFolder
    \/ CopyWrite
    \/ MkdirCallback
    \/ WriteFileCallback
    \/ CopyReturn

SpecWrite == InitWrite /\ [][NextWrite]_vars


\* C24: writeFileExtPromise settles once and in order.  Of every call:
\* fs.writeFile was issued only after fs.mkdir had succeeded, and not at
\* all when fs.mkdir failed; the promise is resolved only when the file has
\* been written, and is rejected, not resolved, when fs.mkdir or
\* fs.writeFile failed; resolve or reject was called at most once.
C24_SettlesOnceInOrder ==
    \A n \in 1..Len(result) :
        /\ result[n].writeFile # "none" => result[n].mkdir = "ok"
        /\ result[n].mkdir = "failed" => result[n].writeFile = "none"
        /\ result[n].state = "resolved" =>
              /\ result[n].writeFile = "ok"
              /\ \E m \in 1..Len(written) :
                    written[m] = << result[n].path, result[n].contents, result[n].templateFile >>
        /\ ( result[n].mkdir = "failed" \/ result[n].writeFile = "failed" )
              => result[n].state = "rejected"
        /\ result[n].settled <= 1
        /\ result[n].state = "pending" <=> result[n].settled = 0

\* C24 happens: in one run a promise was rejected at the directory
\* creation, and one was resolved after its file was written.
C24_Witness ==
    /\ \E n \in 1..Len(result) : result[n].mkdir = "failed" /\ result[n].state = "rejected"
    /\ \E n \in 1..Len(result) : result[n].writeFile = "ok" /\ result[n].state = "resolved"

\* The place of a template file in the order of the walks of createInitials:
\* << number of its initial folder, place in the walk of that folder >>.
WalkPlace(templateFile) ==
    LET folder == CHOOSE n \in 1..Len(initialFolders) :
                      Below(templateFile, InitialTemplateFolder(initialFolders[n]))
        files == getAllTemplateFiles(InitialTemplateFolder(initialFolders[folder]))
    IN  << folder, CHOOSE k \in 1..Len(files) : files[k] = templateFile >>

ComesBefore(a, b) == a[1] < b[1] \/ ( a[1] = b[1] /\ a[2] < b[2] )

\* The count announced for an initial folder, and the total announced.
CreatedMessages == { m \in 1..Len(msgs) : msgs[m][2] = "Created files from templates" }
CompletedMessages == { m \in 1..Len(msgs) : msgs[m][2] = "Initial setup completed!" }

\* The sum of the counts announced for the folders.
RECURSIVE SumOfCreated(_)
SumOfCreated(m) ==
    IF m = 0 THEN 0
    ELSE ( IF m \in CreatedMessages THEN msgs[m][3] ELSE 0 ) + SumOfCreated(m - 1)

\* C27: createInitials writes its artifacts one at a time.  At most one
\* writeFileExtPromise call is unsettled at any moment; the calls are made,
\* and the files written, in the order of the walks; when
\* copyInitialTemplatesFromFolder has returned all its calls are settled
\* and the count it returned is the number of template files of its folder
\* whose write completed; the total createInitials announces is the sum of
\* these counts.
C27_OneWriteAtATime ==
    /\ Cardinality({ n \in 1..Len(result) : result[n].state = "pending" }) <= 1
    /\ \A a \in 1..Len(result), b \in 1..Len(result) :
          a < b => /\ result[a].state # "pending"
                   /\ ComesBefore(WalkPlace(result[a].templateFile),
                                  WalkPlace(result[b].templateFile))
    /\ \A a \in 1..Len(written), b \in 1..Len(written) :
          a < b => ComesBefore(WalkPlace(written[a][3]), WalkPlace(written[b][3]))
    /\ pc \in { "folders", "done", "rejected" } =>
          \A n \in 1..Len(result) : result[n].state # "pending"
    /\ \A m \in CreatedMessages :
          msgs[m][3] = Cardinality({ n \in 1..Len(written) :
                                        Below(written[n][3], InitialTemplateFolder(msgs[m][4])) })
    /\ \A m \in CompletedMessages :
          /\ msgs[m][3] = SumOfCreated(Len(msgs))
          /\ msgs[m][3] = Len(written)

\* C27 happens: createInitials has announced its total after two
\* writeFileExtPromise calls for two folders, of which the first was
\* rejected at the write and the second wrote its file.
C27_Witness ==
    /\ pc = "done"
    /\ CompletedMessages # { }
    /\ Len(result) = 2
    /\ result[1].writeFile = "failed"
    /\ result[2].state = "resolved"
    /\ WalkPlace(result[1].templateFile)[1] # WalkPlace(result[2].templateFile)[1]


(***************************************************************************)
(* Specification SpecWalkSteps: getAllTemplateFiles(WalkDir) taken item by *)
(* item, twice in a row on an unchanged tree.  loc.stack holds the running *)
(* calls, the innermost last: of each its dir, its items, the place k of   *)
(* the item the loop is at, and its files.                                 *)
(***************************************************************************)

\* The most entries below the walked directory.
MaxEntries == 2

InitWalkSteps == InitWalk

\* Somebody makes a file or a directory in one of the directories of the tree.
MkTreeEntry ==
    /\ pc = "start"
    /\ loc = << >>
    /\ Cardinality(DOMAIN fs \ { WalkDir }) < MaxEntries
    /\ \E parent \in { d \in DOMAIN fs : fs[d].dir }, name \in WalkNames, isDir \in BOOLEAN :
          /\ ~existsSync(parent \o << "/" >> \o name)
          /\ fs' = AddNode(fs, parent \o << "/" >> \o name,
                           IF isDir THEN DirNode ELSE FileNode(<< "foo" >>))
    /\ UNCHANGED << inputVars, msgs, written, text, placeholders, result, loc, pc >>

\* The call getAllTemplateFiles(dir) up to its loop.
WalkFrame(dir) == [ dir |-> dir, items |-> readdirSync(dir), k |-> 1, files |-> << >> ]

\* getAllTemplateFiles(WalkDir) is called: the first time, and again when
\* the first call has returned.
WalkCall ==
    /\ \/ pc = "start" /\ loc = << >>
       \/ pc = "walked" /\ loc.calls = 1
    /\ LET calls == IF pc = "start" THEN 1 ELSE 2
           first == IF pc = "start" THEN << >> ELSE result
       IN  IF ~existsSync(WalkDir)
           THEN /\ loc' = [ stack |-> << >>, calls |-> calls, first |-> first ]
                /\ result' = << >>
                /\ pc' = "walked"
           ELSE IF WalkThrows(WalkDir)
           THEN /\ loc' = [ stack |-> << >>, calls |-> calls, first |-> first ]
                /\ result' = result
                /\ pc' = "threw"
           ELSE /\ loc' = [ stack |-> << WalkFrame(WalkDir) >>, calls |-> calls, first |-> first ]
                /\ result' = result
                /\ pc' = "walking"
    /\ UNCHANGED << inputVars, diskVars, text, placeholders >>

\* A loop that stays at an entry that is neither a directory nor a template.
WalkItemStuck ==
    /\ pc = "walking"
    /\ LET top == loc.stack[Len(loc.stack)]
           fullPath == top.dir \o << "/" >> \o top.items[top.k]
       IN  /\ top.k <= Len(top.items)
           /\ loc' = IF isDirectory(fullPath)
                     THEN [ loc EXCEPT !.stack = Append(@, WalkFrame(fullPath)) ]
                     ELSE IF endsWith(top.items[top.k], dotTemplate)
                     THEN [ loc EXCEPT !.stack[Len(loc.stack)] =
                              [ top EXCEPT !.files = Append(@, fullPath), !.k = @ + 1 ] ]
                     ELSE loc
    /\ UNCHANGED << inputVars, diskVars, text, placeholders, result, pc >>

\* One turn of the loop over items in the innermost call: a directory is
\* walked by a call of its own, a file named *.template is pushed.
WalkItem ==
    /\ pc = "walking"
    /\ LET top == loc.stack[Len(loc.stack)]
           fullPath == top.dir \o << "/" >> \o top.items[top.k]
       IN  /\ top.k <= Len(top.items)
           /\ loc' = IF isDirectory(fullPath)
                     THEN [ loc EXCEPT !.stack = Append(@, WalkFrame(fullPath)) ]
                     ELSE IF endsWith(top.items[top.k], dotTemplate)
                     THEN [ loc EXCEPT !.stack[Len(loc.stack)] =
                              [ top EXCEPT !.files = Append(@, fullPath), !.k = @ + 1 ] ]
                     ELSE [ loc EXCEPT !.stack[Len(loc.stack)] = [ top EXCEPT !.k = @ + 1 ] ]
    /\ UNCHANGED << inputVars, diskVars, text, placeholders, result, pc >>

\* The loop of the innermost call is over: it returns its files, to the
\* call that pushes them and goes on, or to the caller of the walk.
WalkReturn ==
    /\ pc = "walking"
    /\ LET n == Len(loc.stack)
           top == loc.stack[n]
       IN  /\ top.k > Len(top.items)
           /\ IF n = 1
              THEN /\ loc' = [ loc EXCEPT !.stack = << >> ]
                   /\ result' = top.files
                   /\ pc' = "walked"
              ELSE /\ loc' = [ loc EXCEPT !.stack =
                                 [ SubSeq(loc.stack, 1, n - 1) EXCEPT ![n - 1] =
                                     [ @ EXCEPT !.files = @ \o top.files, !.k = @ + 1 ] ] ]
                   /\ result' = result
                   /\ pc' = pc
    /\ UNCHANGED << inputVars, diskVars, text, placeholders >>

NextWalkSteps ==
    \/ MkWalkDir
    \/ MkTreeEntry
    \/ WalkCall
    \/ WalkItem
    \/ WalkReturn

\* The walk is synchronous code: once called it runs on.
SpecWalkSteps ==
    /\ InitWalkSteps
    /\ [][NextWalkSteps]_vars
    /\ WF_vars(WalkItem)
    /\ WF_vars(WalkReturn)

\* C25: getAllTemplateFiles terminates on every finite tree, and is
\* deterministic: every walk that has started returns, and the second of
\* two walks of one root on an unchanged tree returns the sequence the
\* first returned.
C25_WalkTerminatesAndRepeats ==
    /\ ( pc = "walking" ) ~> ( pc = "walked" )
    /\ []( ( pc = "walked" /\ loc.calls = 2 ) => result = loc.first )

\* C25 happens: the second walk has returned, with a template file found
\* in a subdirectory.
C25_Witness ==
    /\ pc = "walked"
    /\ loc.calls = 2
    /\ \E n \in 1..Len(result) : Len(result[n]) > Len(WalkDir) + 4


\* The names getLatestVersions was called with.
Requested == { loc.packageNames[n] : n \in 1..Len(loc.packageNames) }

\* getLatestVersions returns in this step.
VersionsReturned == pc = "getLatestVersions" /\ ( pc' # pc \/ loc'.stage # loc.stage )

\* C26: getLatestVersions looks the versions up in batches of 3.  While
\* it runs, at most 3 lookups are in flight, all of the batch at i; every
\* package of the batches before has its version, no package of a batch
\* after has been looked up.  It returns only when no lookup is in flight,
\* with a version for exactly the requested names.
C26_BatchesOfThree ==
    /\ []( pc = "getLatestVersions" =>
             /\ Cardinality(loc.inflight) <= 3
             /\ loc.inflight \subseteq Batch(loc.packageNames, loc.i)
             /\ \A n \in 1..Len(loc.packageNames) :
                   /\ n <= loc.i => loc.packageNames[n] \in DOMAIN loc.versions
                   /\ n > loc.i + 3 => /\ loc.packageNames[n] \notin DOMAIN loc.versions
                                       /\ loc.packageNames[n] \notin loc.inflight
             /\ DOMAIN loc.versions \cap loc.inflight = { }
             /\ DOMAIN loc.versions \subseteq Requested )
    /\ [][ VersionsReturned => /\ loc.inflight = { }
                               /\ result' = loc.versions
                               /\ DOMAIN result' = Requested ]_vars

\* C26 happens: of the seven production packages the second batch is
\* half-way, one lookup settled by the fallback and two in flight.
C26_Witness ==
    /\ pc = "getLatestVersions"
    /\ Len(loc.packageNames) = 7
    /\ loc.i = 3
    /\ Cardinality(loc.inflight) = 2
    /\ \E packageName \in DOMAIN loc.versions \cap Batch(loc.packageNames, 3) :
          loc.versions[packageName] = fallbackVersions[packageName]


(***************************************************************************)
(* The destinations of one createInitials run (SpecWrite).                 *)
(***************************************************************************)

\* The relative path of a template file holds no "{{".
TokenFree(templateFile) == ~includes(RelativeOf(templateFile), << "{{" >>)

\* C28: under non-colliding input each destination path is written at most
\* once per createInitials run.  Two distinct template files whose relative
\* paths contain no placeholder token, within one subtree or across the
\* config, core and test subtrees, are given distinct destination paths,
\* and no destination is written twice for such templates.
C28_DistinctDestinations ==
    /\ \A a \in 1..Len(result), b \in 1..Len(result) :
          ( /\ result[a].templateFile # result[b].templateFile
            /\ TokenFree(result[a].templateFile)
            /\ TokenFree(result[b].templateFile) )
          => Resolve(result[a].path) # Resolve(result[b].path)
    /\ \A a \in 1..Len(written), b \in 1..Len(written) :
          ( a # b /\ TokenFree(written[a][3]) /\ TokenFree(written[b][3]) )
          => Resolve(written[a][1]) # Resolve(written[b][1])

\* C28 happens: a run has written api.template of the config subtree and
\* api.template of the core subtree, to two destinations.
C28_Witness ==
    /\ pc = "done"
    /\ Len(written) = 2
    /\ FolderTypeOf(written[1][3]) = << "config" >>
    /\ FolderTypeOf(written[2][3]) = << "core" >>
    /\ RelativeOf(written[1][3]) = RelativeOf(written[2][3])
    /\ TokenFree(written[1][3])
    /\ existsSync(written[1][1])
    /\ existsSync(written[2][1])

\* Two templates of which one holds a token in its relative path were
\* written to one destination.
C28_TokenCollides ==
    /\ pc = "done"
    /\ Len(written) = 2
    /\ ~TokenFree(written[1][3])
    /\ TokenFree(written[2][3])
    /\ Resolve(written[1][1]) = Resolve(written[2][1])


(***************************************************************************)
(* The messages after the download prompt (SpecFiltered, SpecUsecase).     *)
(***************************************************************************)

\* The messages that ask the user to run the command again.
RunAgainMessages ==
    { << "info", "Templates downloaded successfully! Please run the command again." >>,
      << "info", "Templates downloaded! Please run the command again." >> }

\* C30: the message 'Templates downloaded successfully! Please run the
\* command again.' of createInitials, or 'Templates downloaded! Please run
\* the command again.' of the createUsecase command, is shown only if the
\* download completed: the message before it is the success message of the
\* download, and never the error message of a module that could not be
\* loaded or of a download that failed.
C30_RunAgainOnlyAfterDownload ==
    \A n \in 1..Len(msgs) :
        msgs[n] \in RunAgainMessages
        => /\ n > 1
           /\ msgs[n - 1] = << "info", "Templates downloaded successfully!" >>

=============================================================================
